---- MODULE Spec2Model ----
(***************************************************************************)
(* Model of merge_html_mapping.py (HL7Austria/MultiVersionIGs): the        *)
(* diff-and-merge engine for two versions of a rendered profile page.      *)
(*                                                                         *)
(* Python strings are modelled as sequences of one-character strings, so   *)
(* that split(".."), startswith(parent + "."), int(...) and the ordering   *)
(* of strings are computed as the code computes them.  A Python dict is a  *)
(* sequence of [k, v] entries with distinct keys, in insertion order.      *)
(***************************************************************************)
EXTENDS Integers, Sequences, FiniteSets, TLC

VARIABLES
    prev_struct,      \* detect_breaking_changes: snapshot of the previous version
    curr_struct,      \* detect_breaking_changes: snapshot of the current version
    config,           \* the "children_hidden" entry of config.json ("absent" when not set)
    detected,         \* the local list `changes` before it is sorted and filtered
    changes,          \* the list detect_breaking_changes returned
    diff_pc,          \* "idle" | "ready" | "done"
    soup,             \* parse_snapshot_table: the document, as far as the parser reads it
    structure,        \* the dict parse_snapshot_table returned
    emitted,          \* one entry per row that reached structure[full_path] = ...
    parse_pc,         \* "idle" | "ready" | "done"
    prev_doc,         \* merge_tables: the previous version's document
    curr_doc,         \* merge_tables: the current version's document, changed in place
    curr_before,      \* the current document as it was loaded
    iso_calls,        \* one entry per call of rewrite_ids: block before and after, prefix, id_map
    merge_steps,      \* one entry per iteration of the two merge loops: region, document before and after
    merge_pc,         \* "idle" | "ready" | "done" (tables merged) | "merged" (tabs merged)
    iso_block,        \* rewrite_ids: the block as it is passed in
    iso_prefix,       \* rewrite_ids: the prefix
    iso_result,       \* the block as rewrite_ids left it, and the id_map it built
    iso_pc,           \* "idle" | "ready" | "done"
    tab_soup,         \* inject_migration_tab: the document, changed in place
    tab_before,       \* the document before the first call
    tab_fragment,     \* the content_fragment of the last call
    tab_calls,        \* the number of calls made on the document
    files,            \* the file system: path -> content, "absent" or "undecodable"
    files_before,     \* the file system before the first run
    todo,             \* __main__: the artifacts the loop of this run has not reached yet
    visited,          \* the artifacts the loop of this run has reached, in order
    run,              \* the number of the run
    outcomes,         \* per artifact, one entry per call of replace_artifact_file
    sup_in,           \* suppress_child_changes: the list passed in
    sup_out,          \* the list it returned
    sup_again,        \* the list it returned when called on sup_out
    sup_pc            \* "idle" | "ready" | "done" | "again"

diff_vars == <<prev_struct, curr_struct, config, detected, changes, diff_pc>>

parse_vars == <<soup, structure, emitted, parse_pc>>

merge_vars == <<prev_doc, curr_doc, curr_before, iso_calls, merge_steps, merge_pc>>

iso_vars == <<iso_block, iso_prefix, iso_result, iso_pc>>

tab_vars == <<tab_soup, tab_before, tab_fragment, tab_calls>>

batch_vars == <<files, files_before, todo, visited, run, outcomes>>

sup_vars == <<sup_in, sup_out, sup_again, sup_pc>>

vars == <<diff_vars, parse_vars, merge_vars, iso_vars, tab_vars, batch_vars, sup_vars>>

\* what a step of one component leaves alone
not_diff_vars == <<parse_vars, merge_vars, iso_vars, tab_vars, batch_vars, sup_vars>>
not_parse_vars == <<diff_vars, merge_vars, iso_vars, tab_vars, batch_vars, sup_vars>>
not_merge_vars == <<diff_vars, parse_vars, iso_vars, tab_vars, batch_vars, sup_vars>>
not_iso_vars == <<diff_vars, parse_vars, merge_vars, tab_vars, batch_vars, sup_vars>>
not_tab_vars == <<diff_vars, parse_vars, merge_vars, iso_vars, batch_vars, sup_vars>>
not_batch_vars == <<diff_vars, parse_vars, merge_vars, iso_vars, tab_vars, sup_vars>>
not_sup_vars == <<diff_vars, parse_vars, merge_vars, iso_vars, tab_vars, batch_vars>>

(***************************************************************************)
(* Bounds of the model.                                                    *)
(***************************************************************************)
MaxEntries == 4       \* elements in the two snapshots of a diff, together
MaxRows == 3          \* rows of a snapshot table
MaxNodes == 3         \* elements inside the first table region, both documents together
MaxHandlers == 3      \* elements inside a block that is isolated on its own
MaxCells == 1         \* cells inside a region of the documents the two merge loops run on
MaxCalls == 3         \* calls of inject_migration_tab on one document
MaxArtifacts == 2     \* artifacts in common_ids
MaxRuns == 3          \* runs of the program over the same files
MaxChanges == 3       \* records in a list passed to suppress_child_changes on its own

(***************************************************************************)
(* Strings.                                                                *)
(***************************************************************************)
Digits == {"0", "1", "2", "3", "4", "5", "6", "7", "8", "9"}

\* Code point order of the characters the model uses (Python compares
\* strings by code point): " " < "#" < "*" < "-" < "." < digits < upper < lower.
CharOrd(c) ==
    CASE c = " " -> 32 [] c = "#" -> 35 [] c = "*" -> 42 [] c = "-" -> 45
      [] c = "." -> 46
      [] c = "0" -> 48 [] c = "1" -> 49 [] c = "2" -> 50 [] c = "3" -> 51
      [] c = "4" -> 52 [] c = "5" -> 53 [] c = "6" -> 54 [] c = "7" -> 55
      [] c = "8" -> 56 [] c = "9" -> 57
      [] c = "A" -> 65 [] c = "B" -> 66 [] c = "C" -> 67
      [] c = "a" -> 97 [] c = "b" -> 98 [] c = "c" -> 99
      [] c = "p" -> 112 [] c = "r" -> 114 [] c = "t" -> 116
      [] c = "x" -> 120 [] c = "y" -> 121

\* s < t for Python strings
RECURSIVE StrLess(_, _)
StrLess(s, t) ==
    IF t = <<>> THEN FALSE
    ELSE IF s = <<>> THEN TRUE
    ELSE IF Head(s) = Head(t) THEN StrLess(Tail(s), Tail(t))
    ELSE CharOrd(Head(s)) < CharOrd(Head(t))

\* s.startswith(p)
StartsWith(s, p) == Len(p) <= Len(s) /\ SubSeq(s, 1, Len(p)) = p

\* s.split(".."): cut at the leftmost ".." and split the rest
RECURSIVE SplitDotDot(_)
SplitDotDot(s) ==
    LET hits == {i \in 1..(Len(s) - 1) : s[i] = "." /\ s[i + 1] = "."}
    IN  IF hits = {} THEN <<s>>
        ELSE LET i == CHOOSE j \in hits : \A k \in hits : j <= k
             IN  <<SubSeq(s, 1, i - 1)>> \o SplitDotDot(SubSeq(s, i + 2, Len(s)))

\* s.split("."), the segments of a dotted path
RECURSIVE SplitDot(_)
SplitDot(s) ==
    LET hits == {i \in 1..Len(s) : s[i] = "."}
    IN  IF hits = {} THEN <<s>>
        ELSE LET i == CHOOSE j \in hits : \A k \in hits : j <= k
             IN  <<SubSeq(s, 1, i - 1)>> \o SplitDot(SubSeq(s, i + 1, Len(s)))

DigitVal(c) == CharOrd(c) - 48

RECURSIVE DecimalValue(_)
DecimalValue(s) ==
    IF s = <<>> THEN 0
    ELSE 10 * DecimalValue(SubSeq(s, 1, Len(s) - 1)) + DigitVal(s[Len(s)])

\* int(s): a non-empty string of digits has a value, any other string of the
\* model's alphabet raises ValueError
IntOk(s) == s # <<>> /\ \A i \in 1..Len(s) : s[i] \in Digits
IntVal(s) == DecimalValue(s)

\* The paths and cardinality cells the model's inputs are built from.
Str_A == <<"A">>
Str_AB == <<"A", "B">>
Str_A_B == <<"A", ".", "B">>
Str_A_B_C == <<"A", ".", "B", ".", "C">>

Card_0_1 == <<"0", ".", ".", "1">>
Card_1_1 == <<"1", ".", ".", "1">>
Card_0_n == <<"0", ".", ".", "*">>
Card_1_n == <<"1", ".", ".", "*">>
Card_2_n == <<"2", ".", ".", "*">>
Card_bare == <<"1">>
Card_x_1 == <<"x", ".", ".", "1">>
Card_empty == <<>>

(***************************************************************************)
(* Python dicts: sequences of [k, v] entries with distinct keys, kept in   *)
(* insertion order.                                                        *)
(***************************************************************************)
DictKeys(d) == {d[i].k : i \in 1..Len(d)}
DictHas(d, key) == key \in DictKeys(d)
DictGet(d, key) == d[CHOOSE i \in 1..Len(d) : d[i].k = key].v

\* d[key] = val: a present key keeps its place, a new key goes last
DictSet(d, key, val) ==
    IF DictHas(d, key)
    THEN [i \in 1..Len(d) |-> IF d[i].k = key THEN [k |-> key, v |-> val] ELSE d[i]]
    ELSE Append(d, [k |-> key, v |-> val])

(***************************************************************************)
(* Structure Extractor: the record parse_snapshot_table stores per path.   *)
(***************************************************************************)
\* card.split("..")[0] != "0"
IsMandatory(card) == SplitDotDot(card)[1] # <<"0">>

ElementRecord(card, elem_type) ==
    [card |-> card, type |-> elem_type, is_mandatory |-> IsMandatory(card)]

(***************************************************************************)
(* Diff Analyzer: detect_breaking_changes.                                 *)
(***************************************************************************)
NoteOptionalToMandatory == " (Tightened: Optional -> Mandatory)"
NoteListToSingle == " (Tightened: List -> Single)"
NoteLoosened == " (Loosened: Mandatory -> Optional)"

\* A description: the fixed text, the two cardinalities formatted into it
\* (empty for Removed and New) and the notes appended with +=.
Desc(text, prev_card, curr_card) ==
    [text |-> text, prev |-> prev_card, curr |-> curr_card, notes |-> <<>>]

AddNote(desc, note) == [desc EXCEPT !.notes = Append(@, note)]

ChangeRecord(severity, type, element, desc) ==
    [severity |-> severity, type |-> type, element |-> element, desc |-> desc]

\* variant: a removed mandatory element rated like a new one
RemovedSeverityAsNew(is_mandatory) == IF is_mandatory THEN "BREAKING" ELSE "INFO"

RemovedSeverity(is_mandatory) == IF is_mandatory THEN "CRITICAL" ELSE "INFO"

RemovedRecord(path, r_prev) ==
    ChangeRecord(RemovedSeverity(r_prev.is_mandatory), "Removed", path,
                 Desc(IF r_prev.is_mandatory
                      THEN "CRITICAL: Mandatory element removed!"
                      ELSE "Element removed.", <<>>, <<>>))

NewSeverity(is_mandatory) == IF is_mandatory THEN "BREAKING" ELSE "INFO"

NewRecord(path, r_curr) ==
    ChangeRecord(NewSeverity(r_curr.is_mandatory), "New", path,
                 Desc(IF r_curr.is_mandatory
                      THEN "BREAKING: New mandatory element added."
                      ELSE "New element added.", <<>>, <<>>))

\* The try block: int(split[0]) of both cards, then split[1] of both; a
\* ValueError or IndexError anywhere leaves severity and desc as they were.
CardParses(card) ==
    /\ IntOk(SplitDotDot(card)[1])
    /\ Len(SplitDotDot(card)) >= 2

CardMin(card) == IntVal(SplitDotDot(card)[1])
CardMax(card) == SplitDotDot(card)[2]

\* variant: the list -> single test left out
CardinalityChangeMinOnly(prev_card, curr_card) ==
    LET base == Desc("Cardinality changed: ", prev_card, curr_card)
    IN  IF ~(CardParses(prev_card) /\ CardParses(curr_card))
        THEN [severity |-> "INFO", desc |-> base]
        ELSE IF CardMin(prev_card) < CardMin(curr_card)
        THEN [severity |-> "BREAKING", desc |-> AddNote(base, NoteOptionalToMandatory)]
        ELSE IF CardMin(prev_card) > CardMin(curr_card)
        THEN [severity |-> "INFO", desc |-> AddNote(base, NoteLoosened)]
        ELSE [severity |-> "INFO", desc |-> base]

\* variant: a cardinality that does not parse reported as a WARNING
CardinalityChangeWarnMalformed(prev_card, curr_card) ==
    LET base == Desc("Cardinality changed: ", prev_card, curr_card)
    IN  IF ~(CardParses(prev_card) /\ CardParses(curr_card))
        THEN [severity |-> "WARNING", desc |-> base]
        ELSE IF CardMin(prev_card) < CardMin(curr_card)
        THEN [severity |-> "BREAKING", desc |-> AddNote(base, NoteOptionalToMandatory)]
        ELSE IF CardMax(prev_card) = <<"*">> /\ CardMax(curr_card) # <<"*">>
        THEN [severity |-> "BREAKING", desc |-> AddNote(base, NoteListToSingle)]
        ELSE IF CardMin(prev_card) > CardMin(curr_card)
        THEN [severity |-> "INFO", desc |-> AddNote(base, NoteLoosened)]
        ELSE [severity |-> "INFO", desc |-> base]

\* severity and description of a Changed record
CardinalityChange(prev_card, curr_card) ==
    LET base == Desc("Cardinality changed: ", prev_card, curr_card)
    IN  IF ~(CardParses(prev_card) /\ CardParses(curr_card))
        THEN [severity |-> "INFO", desc |-> base]
        ELSE IF CardMin(prev_card) < CardMin(curr_card)
        THEN [severity |-> "BREAKING", desc |-> AddNote(base, NoteOptionalToMandatory)]
        ELSE IF CardMax(prev_card) = <<"*">> /\ CardMax(curr_card) # <<"*">>
        THEN [severity |-> "BREAKING", desc |-> AddNote(base, NoteListToSingle)]
        ELSE IF CardMin(prev_card) > CardMin(curr_card)
        THEN [severity |-> "INFO", desc |-> AddNote(base, NoteLoosened)]
        ELSE [severity |-> "INFO", desc |-> base]

ChangedRecord(path, r_prev, r_curr) ==
    LET c == CardinalityChange(r_prev.card, r_curr.card)
    IN  ChangeRecord(c.severity, "Changed", path, c.desc)

\* for path, r_prev in prev_struct.items(): if path not in curr_struct
RECURSIVE RemovedLoop(_, _, _)
RemovedLoop(prev, curr, i) ==
    IF i > Len(prev) THEN <<>>
    ELSE (IF ~DictHas(curr, prev[i].k)
          THEN <<RemovedRecord(prev[i].k, prev[i].v)>> ELSE <<>>)
         \o RemovedLoop(prev, curr, i + 1)

\* for path, r_curr in curr_struct.items(): if path not in prev_struct
RECURSIVE NewLoop(_, _, _)
NewLoop(prev, curr, i) ==
    IF i > Len(curr) THEN <<>>
    ELSE (IF ~DictHas(prev, curr[i].k)
          THEN <<NewRecord(curr[i].k, curr[i].v)>> ELSE <<>>)
         \o NewLoop(prev, curr, i + 1)

\* for path, r_prev in prev_struct.items(): if path in curr_struct and
\* the two "card" values differ
RECURSIVE ChangedLoop(_, _, _)
ChangedLoop(prev, curr, i) ==
    IF i > Len(prev) THEN <<>>
    ELSE (IF DictHas(curr, prev[i].k)
             /\ prev[i].v.card # DictGet(curr, prev[i].k).card
          THEN <<ChangedRecord(prev[i].k, prev[i].v, DictGet(curr, prev[i].k))>>
          ELSE <<>>)
         \o ChangedLoop(prev, curr, i + 1)

get_sort_rank(item) ==
    IF item.severity = "CRITICAL" THEN 1
    ELSE IF item.severity = "BREAKING" THEN 2
    ELSE IF item.severity \in {"INFO", "WARNING"} /\ item.type # "New" THEN 3
    ELSE IF item.type = "New" THEN 4
    ELSE 5

\* variant: the sort key without the path
SortKeyLessRankOnly(a, b) == get_sort_rank(a) < get_sort_rank(b)

\* (get_sort_rank(a), a["element"]) < (get_sort_rank(b), b["element"])
SortKeyLess(a, b) ==
    \/ get_sort_rank(a) < get_sort_rank(b)
    \/ /\ get_sort_rank(a) = get_sort_rank(b)
       /\ StrLess(a.element, b.element)

\* x put into the sorted list s behind every item whose key is not greater
InsertSorted(x, s) ==
    LET later == {i \in 1..Len(s) : SortKeyLess(x, s[i])}
        at == IF later = {} THEN Len(s) + 1
              ELSE CHOOSE i \in later : \A j \in later : i <= j
    IN  SubSeq(s, 1, at - 1) \o <<x>> \o SubSeq(s, at, Len(s))

\* changes.sort(key=...): a stable sort
RECURSIVE SortChanges(_)
SortChanges(s) ==
    IF s = <<>> THEN <<>>
    ELSE InsertSorted(s[Len(s)], SortChanges(SubSeq(s, 1, Len(s) - 1)))

\* variant: startswith(parent), the "." forgotten
IsChildOfNoDot(element, parent) == StartsWith(element, parent)

\* c["element"].startswith(parent + ".") for some parent in removed_or_new
IsChildOf(element, parent) == StartsWith(element, parent \o <<".">>)

RECURSIVE KeepNonChildren(_, _, _)
KeepNonChildren(recs, removed_or_new, i) ==
    IF i > Len(recs) THEN <<>>
    ELSE (IF \E parent \in removed_or_new : IsChildOf(recs[i].element, parent)
          THEN <<>> ELSE <<recs[i]>>)
         \o KeepNonChildren(recs, removed_or_new, i + 1)

\* variant: every record is a parent, whatever its type
SuppressUnderAnyRecord(recs) ==
    KeepNonChildren(recs, {recs[i].element : i \in 1..Len(recs)}, 1)

suppress_child_changes(recs) ==
    LET removed_or_new ==
            {recs[i].element : i \in {j \in 1..Len(recs) : recs[j].type \in {"Removed", "New"}}}
    IN  KeepNonChildren(recs, removed_or_new, 1)

\* variant: config.get("children_hidden", False)
ChildrenHiddenDefaultOff(cfg) == cfg = "true"

\* config.get("children_hidden", True)
ChildrenHidden(cfg) == IF cfg = "absent" THEN TRUE ELSE cfg = "true"

\* the records in the order the three loops append them
DetectedChanges(prev, curr) ==
    RemovedLoop(prev, curr, 1) \o NewLoop(prev, curr, 1) \o ChangedLoop(prev, curr, 1)

detect_breaking_changes(prev, curr, cfg) ==
    LET sorted == SortChanges(DetectedChanges(prev, curr))
    IN  IF ChildrenHidden(cfg) THEN suppress_child_changes(sorted) ELSE sorted

(***************************************************************************)
(* Structure Extractor: parse_snapshot_table.                              *)
(*                                                                         *)
(* A row (tr) is [ncols, depth, cell, card, type]: the number of td cells, *)
(* the number of tbl_*.png images in the first cell, the texts of the      *)
(* first cell, and the stripped texts of the third and fourth cell.  A     *)
(* first cell is [has_a, a_strings, strings]: whether it holds an <a>, the *)
(* text nodes inside the first <a>, and all text nodes of the cell.        *)
(***************************************************************************)
\* str.strip()
RECURSIVE StripLeft(_)
StripLeft(s) == IF s # <<>> /\ Head(s) = " " THEN StripLeft(Tail(s)) ELSE s

RECURSIVE StripRight(_)
StripRight(s) ==
    IF s # <<>> /\ s[Len(s)] = " " THEN StripRight(SubSeq(s, 1, Len(s) - 1)) ELSE s

Strip(s) == StripRight(StripLeft(s))

\* the stripped, non-empty text nodes, in document order (stripped_strings)
RECURSIVE StrippedStrings(_)
StrippedStrings(texts) ==
    IF texts = <<>> THEN <<>>
    ELSE (IF Strip(Head(texts)) = <<>> THEN <<>> ELSE <<Strip(Head(texts))>>)
         \o StrippedStrings(Tail(texts))

RECURSIVE Concat(_)
Concat(ss) == IF ss = <<>> THEN <<>> ELSE Head(ss) \o Concat(Tail(ss))

\* tag.get_text(strip=True)
GetTextStrip(texts) == Concat(StrippedStrings(texts))

\* the element name of a row: the text of the <a> when there is one, else
\* the last non-empty text of the cell, else ""
LocalName(cell) ==
    IF cell.has_a THEN GetTextStrip(cell.a_strings)
    ELSE LET all_text == StrippedStrings(cell.strings)
         IN  IF all_text # <<>> THEN all_text[Len(all_text)] ELSE <<>>

\* the rows that never reach the stack
RowSkipped(row) == row.ncols < 4 \/ row.depth = 0 \/ LocalName(row.cell) = <<>>

\* variant: while len(path_stack) > desired_path_length
RECURSIVE PopToDepthOffByOne(_, _)
PopToDepthOffByOne(path_stack, desired_path_length) ==
    IF Len(path_stack) > desired_path_length
    THEN PopToDepthOffByOne(SubSeq(path_stack, 1, Len(path_stack) - 1), desired_path_length)
    ELSE path_stack

\* variant: while len(path_stack) >= desired_path_length - 1
RECURSIVE PopToDepthOneTooMany(_, _)
PopToDepthOneTooMany(path_stack, desired_path_length) ==
    IF Len(path_stack) >= desired_path_length - 1 /\ path_stack # <<>>
    THEN PopToDepthOneTooMany(SubSeq(path_stack, 1, Len(path_stack) - 1),
                              desired_path_length)
    ELSE path_stack

\* while len(path_stack) >= desired_path_length: path_stack.pop()
RECURSIVE PopToDepth(_, _)
PopToDepth(path_stack, desired_path_length) ==
    IF Len(path_stack) >= desired_path_length
    THEN PopToDepth(SubSeq(path_stack, 1, Len(path_stack) - 1), desired_path_length)
    ELSE path_stack

\* ".".join(path_stack)
RECURSIVE JoinDot(_)
JoinDot(ss) ==
    IF ss = <<>> THEN <<>>
    ELSE IF Len(ss) = 1 THEN ss[1]
    ELSE ss[1] \o <<".">> \o JoinDot(Tail(ss))

\* The loop over the rows from row i on; st is [path_stack, structure, emitted].
RECURSIVE ParseRows(_, _, _)
ParseRows(rows, i, st) ==
    IF i > Len(rows) THEN st
    ELSE IF RowSkipped(rows[i]) THEN ParseRows(rows, i + 1, st)
    ELSE LET stack == Append(PopToDepth(st.path_stack, rows[i].depth),
                             LocalName(rows[i].cell))
             full_path == JoinDot(stack)
         IN  ParseRows(rows, i + 1,
                 [path_stack |-> stack,
                  structure |-> DictSet(st.structure, full_path,
                                        ElementRecord(rows[i].card, rows[i].type)),
                  emitted |-> Append(st.emitted,
                                     [row |-> i, depth |-> rows[i].depth,
                                      path |-> full_path, path_stack |-> stack])])

parse_snapshot_table(doc) ==
    IF ~doc.has_div \/ ~doc.has_table
    THEN [path_stack |-> <<>>, structure |-> <<>>, emitted |-> <<>>]
    ELSE ParseRows(doc.rows, 1, [path_stack |-> <<>>, structure |-> <<>>, emitted |-> <<>>])

\* First cells: a link "A"; a link "B.C"; no link, the texts "x" and " C ";
\* a link with blank text beside other text; no text at all.
Cell_A == [has_a |-> TRUE, a_strings |-> <<<<"A">>>>, strings |-> <<<<"A">>>>]
Cell_B_C == [has_a |-> TRUE, a_strings |-> <<<<"B", ".", "C">>>>,
             strings |-> <<<<"B", ".", "C">>>>]
Cell_C == [has_a |-> FALSE, a_strings |-> <<>>, strings |-> <<<<"x">>, <<" ", "C", " ">>, <<" ">>>>]
Cell_blank_a == [has_a |-> TRUE, a_strings |-> <<<<" ">>>>, strings |-> <<<<" ">>, <<"x">>>>]
Cell_none == [has_a |-> FALSE, a_strings |-> <<>>, strings |-> <<>>]

Depths == {1, 2, 3}

TableRows ==
    {[ncols |-> 4, depth |-> d, cell |-> c, card |-> Card_0_1, type |-> "string"] :
        d \in Depths, c \in {Cell_A, Cell_B_C, Cell_C, Cell_blank_a, Cell_none}}
    \cup {[ncols |-> 4, depth |-> 0, cell |-> Cell_A, card |-> Card_0_1, type |-> "string"],
          [ncols |-> 3, depth |-> 2, cell |-> Cell_A, card |-> Card_1_1, type |-> "string"]}

Soups ==
    {[has_div |-> FALSE, has_table |-> FALSE, rows |-> <<>>],
     [has_div |-> TRUE, has_table |-> FALSE, rows |-> <<>>]}
    \cup {[has_div |-> TRUE, has_table |-> TRUE, rows |-> r] :
             r \in UNION {[1..n -> TableRows] : n \in 0..MaxRows}}

(***************************************************************************)
(* Documents.  A document or fragment is the sequence of its elements in   *)
(* document order, each with its depth d in the tree, so that the subtree  *)
(* of element i is the run of deeper elements behind it.  An attribute is  *)
(* <<>> when absent and <<value>> when present; class is a set of names.   *)
(* Text nodes are left out.                                                *)
(***************************************************************************)
Absent == <<>>
Some(v) == <<v>>

Element(d, tag, id, name, href, cls, style, on) ==
    [d |-> d, tag |-> tag, id |-> id, name |-> name, href |-> href,
     cls |-> cls, style |-> style, on |-> on]

Min(S) == CHOOSE x \in S : \A y \in S : x <= y

\* the index of the last element of the subtree rooted at i
SubtreeEnd(doc, i) ==
    LET later == {j \in (i + 1)..Len(doc) : doc[j].d <= doc[i].d}
    IN  IF later = {} THEN Len(doc) ELSE Min(later) - 1

\* soup.find("div", {"id": region}): the first such div, 0 for None
FindDivById(doc, region) ==
    LET hits == {i \in 1..Len(doc) : doc[i].tag = "div" /\ doc[i].id = Some(region)}
    IN  IF hits = {} THEN 0 ELSE Min(hits)

\* soup.find("div", {"class": c})
FindDivByClass(doc, c) ==
    LET hits == {i \in 1..Len(doc) : doc[i].tag = "div" /\ c \in doc[i].cls}
    IN  IF hits = {} THEN 0 ELSE Min(hits)

\* a fragment moved to depth base
AtDepth(frag, base) ==
    [j \in 1..Len(frag) |-> [frag[j] EXCEPT !.d = @ - frag[1].d + base]]

\* copy.deepcopy(tag): the subtree of element i, detached
DeepCopy(doc, i) == AtDepth(SubSeq(doc, i, SubtreeEnd(doc, i)), 0)

\* tag.replace_with(frag)
ReplaceWith(doc, i, frag) ==
    SubSeq(doc, 1, i - 1) \o AtDepth(frag, doc[i].d)
        \o SubSeq(doc, SubtreeEnd(doc, i) + 1, Len(doc))

\* wrapper.append(block): block becomes the last child of the single element
Wrap(wrapper, block) == <<wrapper>> \o AtDepth(block, wrapper.d + 1)

(***************************************************************************)
(* str(tag) and BeautifulSoup(html, "html.parser"): a fragment written as  *)
(* start and end tags and read back.  html.parser keeps the nesting the    *)
(* tags state; <input>, <img> and <hr> are void, written without end tag.   *)
(***************************************************************************)
VoidTags == {"input", "img", "hr"}

\* the end tags due before an element of depth d opens; open_tags is the
\* stack of the tags still open
RECURSIVE CloseTo(_, _)
CloseTo(open_tags, d) ==
    IF Len(open_tags) > d
    THEN <<[kind |-> "end", tag |-> open_tags[Len(open_tags)]]>>
         \o CloseTo(SubSeq(open_tags, 1, Len(open_tags) - 1), d)
    ELSE <<>>

RECURSIVE SerializeFrom(_, _, _)
SerializeFrom(frag, i, open_tags) ==
    IF i > Len(frag) THEN CloseTo(open_tags, 0)
    ELSE LET rel == frag[i].d - frag[1].d
             kept == SubSeq(open_tags, 1, IF Len(open_tags) > rel THEN rel ELSE Len(open_tags))
         IN  CloseTo(open_tags, rel)
             \o <<[kind |-> "start", tag |-> frag[i].tag, attrs |-> [frag[i] EXCEPT !.d = 0]]>>
             \o SerializeFrom(frag, i + 1,
                    IF frag[i].tag \in VoidTags THEN kept ELSE Append(kept, frag[i].tag))

Serialize(frag) == IF frag = <<>> THEN <<>> ELSE SerializeFrom(frag, 1, <<>>)

\* reading the tags back: a start tag opens an element under the open ones,
\* an end tag closes the innermost open element of that tag
RECURSIVE ParseFrom(_, _, _)
ParseFrom(events, i, open_tags) ==
    IF i > Len(events) THEN <<>>
    ELSE IF events[i].kind = "start"
    THEN <<[events[i].attrs EXCEPT !.d = Len(open_tags)]>>
         \o ParseFrom(events, i + 1,
                IF events[i].tag \in VoidTags THEN open_tags
                ELSE Append(open_tags, events[i].tag))
    ELSE LET same == {k \in 1..Len(open_tags) : open_tags[k] = events[i].tag}
         IN  ParseFrom(events, i + 1,
                IF same = {} THEN open_tags
                ELSE SubSeq(open_tags, 1, (CHOOSE k \in same : \A l \in same : l <= k) - 1))

ParseHtml(events) == ParseFrom(events, 1, <<>>)

(***************************************************************************)
(* add_max_width.  A style value is a sequence of tokens: the words        *)
(* "max-width", "white-space", "nowrap", "normal", "150px" and the         *)
(* characters ";", ":", " ".                                               *)
(***************************************************************************)
TokenIn(tok, style) == \E i \in 1..Len(style) : style[i] = tok

\* style.strip("; ")
RECURSIVE StripStyleLeft(_)
StripStyleLeft(s) ==
    IF s # <<>> /\ Head(s) \in {";", " "} THEN StripStyleLeft(Tail(s)) ELSE s

RECURSIVE StripStyleRight(_)
StripStyleRight(s) ==
    IF s # <<>> /\ s[Len(s)] \in {";", " "}
    THEN StripStyleRight(SubSeq(s, 1, Len(s) - 1)) ELSE s

MaxWidthStyle(style_attr) ==
    LET style == IF style_attr = Absent THEN <<>> ELSE style_attr[1]
        widened == IF ~TokenIn("max-width", style)
                   THEN style \o <<";", " ", "max-width", ":", " ", "150px">>
                   ELSE style
        wrapped == IF TokenIn("white-space", widened) /\ TokenIn("nowrap", widened)
                   THEN [i \in 1..Len(widened) |->
                            IF widened[i] = "nowrap" THEN "normal" ELSE widened[i]]
                   ELSE widened
    IN  Some(StripStyleRight(StripStyleLeft(wrapped)))

\* element.find_all("td"): the td elements below the root
add_max_width(block) ==
    [i \in 1..Len(block) |->
        IF i >= 2 /\ block[i].tag = "td"
        THEN [block[i] EXCEPT !.style = MaxWidthStyle(@)]
        ELSE block[i]]

(***************************************************************************)
(* Namespace Isolator: rewrite_ids.  Identifiers and links are strings of  *)
(* characters.  A handler is a sequence of tokens: characters, and the     *)
(* words "this.value", "event.target.value" and "toLowerCase".             *)
(***************************************************************************)
Max(S) == CHOOSE x \in S : \A y \in S : y <= x

\* s.replace(old, new), old not empty
RECURSIVE ReplaceAll(_, _, _)
ReplaceAll(s, old, new) ==
    IF Len(s) < Len(old) THEN s
    ELSE IF SubSeq(s, 1, Len(old)) = old
    THEN new \o ReplaceAll(SubSeq(s, Len(old) + 1, Len(s)), old, new)
    ELSE <<Head(s)>> \o ReplaceAll(Tail(s), old, new)

\* the length of the run of spaces s starts with
RECURSIVE LeadingSpaces(_)
LeadingSpaces(s) == IF s # <<>> /\ Head(s) = " " THEN 1 + LeadingSpaces(Tail(s)) ELSE 0

\* [.]?toLowerCase matches at position pos of h
LowerCaseAt(h, pos) ==
    \/ pos <= Len(h) /\ h[pos] = "toLowerCase"
    \/ pos + 1 <= Len(h) /\ h[pos] = "." /\ h[pos + 1] = "toLowerCase"

\* re.sub(r'(value)\s*(?![.]?toLowerCase)', r'\1.toLowerCase()', h): \s* takes
\* the longest run of spaces behind which the lookahead does not match
RECURSIVE SubLowerCase(_, _)
SubLowerCase(h, value) ==
    IF h = <<>> THEN <<>>
    ELSE IF Head(h) # value THEN <<Head(h)>> \o SubLowerCase(Tail(h), value)
    ELSE LET ok == {k \in 0..LeadingSpaces(Tail(h)) : ~LowerCaseAt(h, 2 + k)}
         IN  IF ok = {} THEN <<Head(h)>> \o SubLowerCase(Tail(h), value)
             ELSE <<value, ".", "toLowerCase", "(", ")">>
                  \o SubLowerCase(SubSeq(h, 2 + Max(ok), Len(h)), value)

\* for original_id, new_id in id_map.items(): the three replacements
RECURSIVE ReplaceIds(_, _, _)
ReplaceIds(h, id_map, i) ==
    IF i > Len(id_map) THEN h
    ELSE LET old == id_map[i].k
             new == id_map[i].v
             single == ReplaceAll(h, <<"'">> \o old \o <<"'">>, <<"'">> \o new \o <<"'">>)
             double == ReplaceAll(single, <<"\"">> \o old \o <<"\"">>,
                                  <<"\"">> \o new \o <<"\"">>)
             bare == ReplaceAll(double, <<" ">> \o old \o <<" ">>, <<" ">> \o new \o <<" ">>)
         IN  ReplaceIds(bare, id_map, i + 1)

\* for pattern in value_patterns: handler = re.sub(pattern, ...)
NormalizeValueReads(handler) ==
    SubLowerCase(SubLowerCase(handler, "this.value"), "event.target.value")

update_handler(handler, id_map) ==
    IF handler = <<>> THEN handler
    ELSE ReplaceIds(NormalizeValueReads(handler), id_map, 1)

\* new_id = prefix + original_id
Prefixed(prefix, original) == prefix \o original

\* the id_map after the loop over find_all(id=True), from element i on
RECURSIVE MapIds(_, _, _, _)
MapIds(block, prefix, i, id_map) ==
    IF i > Len(block) THEN id_map
    ELSE MapIds(block, prefix, i + 1,
                IF block[i].id # Absent
                THEN DictSet(id_map, block[i].id[1], Prefixed(prefix, block[i].id[1]))
                ELSE id_map)

\* the id_map after the loop over find_all("a", attrs={"name": True})
RECURSIVE MapNames(_, _, _, _)
MapNames(block, prefix, i, id_map) ==
    IF i > Len(block) THEN id_map
    ELSE MapNames(block, prefix, i + 1,
                  IF block[i].tag = "a" /\ block[i].name # Absent
                  THEN DictSet(id_map, block[i].name[1], Prefixed(prefix, block[i].name[1]))
                  ELSE id_map)

\* variant: the link loop left out
RewriteLinkUnchanged(href, prefix, id_map) == href

\* href of an <a>: "#x" with x in id_map becomes "#" + prefix + x
RewriteLink(href, prefix, id_map) ==
    IF StartsWith(href, <<"#">>) /\ Len(href) > 1 /\ DictHas(id_map, Tail(href))
    THEN <<"#">> \o prefix \o Tail(href)
    ELSE href

\* rewrite_ids(block, prefix): find_all searches below the root, so the
\* element block[1] itself is never rewritten.  The result is the block as
\* the call leaves it and the id_map it built.
rewrite_ids(block, prefix) ==
    LET id_map == MapNames(block, prefix, 2, MapIds(block, prefix, 2, <<>>))
        rewritten ==
            [i \in 1..Len(block) |->
                IF i = 1 THEN block[i]
                ELSE [block[i] EXCEPT
                        !.id = IF @ # Absent THEN Some(Prefixed(prefix, @[1])) ELSE @,
                        !.name = IF block[i].tag = "a" /\ @ # Absent
                                 THEN Some(Prefixed(prefix, @[1])) ELSE @,
                        !.on = IF @ # Absent THEN Some(update_handler(@[1], id_map)) ELSE @,
                        !.href = IF block[i].tag = "a" /\ @ # Absent
                                 THEN Some(RewriteLink(@[1], prefix, id_map)) ELSE @]]
    IN  [block |-> rewritten, id_map |-> id_map]

(***************************************************************************)
(* Fragment Merger: merge_tables.                                          *)
(***************************************************************************)
Prefix_prev == <<"p", "r", "e", "v", "-">>
Prefix_curr == <<"c", "u", "r", "r", "-">>

\* the elements of the literal markup (their inline styles and the h4
\* texts are left out)
Literal(tag, cls) ==
    [kind |-> "start", tag |-> tag,
     attrs |-> Element(0, tag, Absent, Absent, Absent, cls, Absent, Absent)]
LiteralEnd(tag) == [kind |-> "end", tag |-> tag]

\* the f-string merged_html around str(prev_wrapper) and str(curr_wrapper)
MergedHtml(prev_wrapper, curr_wrapper) ==
    <<Literal("div", {"row", "no-gutters", "merged-table-container"}),
      Literal("div", {"col-6"}), Literal("h4", {}), LiteralEnd("h4")>>
    \o Serialize(prev_wrapper)
    \o <<LiteralEnd("div"), Literal("div", {"col-6"}), Literal("h4", {}), LiteralEnd("h4")>>
    \o Serialize(curr_wrapper)
    \o <<LiteralEnd("div"), LiteralEnd("div")>>

\* what an iteration adds to the trace of the loop
Step(region, before, after) == [region |-> region, before |-> before, after |-> after]

\* one iteration of the loop of merge_tables; st is [curr, calls, steps]
MergeTable(prev, st, table_name) ==
    LET curr == st.curr
        prev_table == FindDivById(prev, table_name)
        curr_table == FindDivById(curr, table_name)
    IN  IF prev_table = 0 \/ curr_table = 0
        THEN [st EXCEPT !.steps = Append(@, Step(table_name, curr, curr))]
        ELSE
        LET prev_copy == add_max_width(DeepCopy(prev, prev_table))
            curr_copy == add_max_width(DeepCopy(curr, curr_table))
            prev_iso == rewrite_ids(prev_copy, Prefix_prev)
            curr_iso == rewrite_ids(curr_copy, Prefix_curr)
            prev_wrapper ==
                Wrap(Element(0, "div", Absent, Absent, Absent, {"prev-container"},
                             Absent, Absent), prev_iso.block)
            curr_wrapper ==
                Wrap(Element(0, "div", Absent, Absent, Absent, {"curr-container"},
                             Absent, Absent), curr_iso.block)
            parsed == ParseHtml(MergedHtml(prev_wrapper, curr_wrapper))
            found == FindDivByClass(parsed, "merged-table-container")
            target == FindDivById(curr, table_name)
            calls == st.calls
                     \o <<[prefix |-> Prefix_prev, before |-> prev_copy,
                           after |-> prev_iso.block, id_map |-> prev_iso.id_map],
                          [prefix |-> Prefix_curr, before |-> curr_copy,
                           after |-> curr_iso.block, id_map |-> curr_iso.id_map]>>
            merged == IF target # 0 /\ found # 0
                      THEN ReplaceWith(curr, target, DeepCopy(parsed, found))
                      ELSE curr
        IN  [curr |-> merged, calls |-> calls,
             steps |-> Append(st.steps, Step(table_name, curr, merged))]

\* variant: the loop left at the first region that is missing on a side
RECURSIVE MergeTablesFromStopAtMissing(_, _, _, _)
MergeTablesFromStopAtMissing(prev, st, names, i) ==
    IF i > Len(names) THEN st
    ELSE IF FindDivById(prev, names[i]) = 0 \/ FindDivById(st.curr, names[i]) = 0 THEN st
    ELSE MergeTablesFromStopAtMissing(prev, MergeTable(prev, st, names[i]), names, i + 1)

\* for table_name in table_names
RECURSIVE MergeTablesFrom(_, _, _, _)
MergeTablesFrom(prev, st, names, i) ==
    IF i > Len(names) THEN st
    ELSE MergeTablesFrom(prev, MergeTable(prev, st, names[i]), names, i + 1)

merge_tables(prev, curr, names) ==
    MergeTablesFrom(prev, [curr |-> curr, calls |-> <<>>, steps |-> <<>>], names, 1)

(***************************************************************************)
(* Fragment Merger: merge_tabs.                                            *)
(***************************************************************************)
LiteralWithId(tag, id, cls) ==
    [kind |-> "start", tag |-> tag,
     attrs |-> Element(0, tag, Some(id), Absent, Absent, cls, Absent, Absent)]

\* "".join(str(child) for child in copy.contents)
ContentString(copy) == Serialize(SubSeq(copy, 2, Len(copy)))

\* the f-string stacked_html_content
StackedHtml(tab_name, prev_content_string, curr_content_string) ==
    <<LiteralWithId("div", tab_name, {"tab-pane", "active", "merged-tab-content"}),
      Literal("div", {"container-fluid", "p-0"}),
      Literal("h4", {}), LiteralEnd("h4"),
      Literal("div", {"version-prev-content"})>>
    \o prev_content_string
    \o <<LiteralEnd("div"), Literal("hr", {}), Literal("h4", {}), LiteralEnd("h4"),
         Literal("div", {"version-curr-content"})>>
    \o curr_content_string
    \o <<LiteralEnd("div"), LiteralEnd("div"), LiteralEnd("div")>>

\* one iteration of the loop of merge_tabs; st is [curr, steps]
MergeTab(prev, st, tab_name) ==
    LET curr == st.curr
        prev_tab == FindDivById(prev, tab_name)
        curr_tab == FindDivById(curr, tab_name)
    IN  IF prev_tab = 0 \/ curr_tab = 0
        THEN [st EXCEPT !.steps = Append(@, Step(tab_name, curr, curr))]
        ELSE
        LET prev_copy == DeepCopy(prev, prev_tab)
            curr_copy == DeepCopy(curr, curr_tab)
            parsed == ParseHtml(StackedHtml(tab_name, ContentString(prev_copy),
                                            ContentString(curr_copy)))
            found == FindDivById(parsed, tab_name)
            target == FindDivById(curr, tab_name)
            merged == IF target # 0 /\ found # 0
                      THEN ReplaceWith(curr, target, DeepCopy(parsed, found))
                      ELSE curr
        IN  [curr |-> merged, steps |-> Append(st.steps, Step(tab_name, curr, merged))]

\* for tab_name in tabs_names
RECURSIVE MergeTabsFrom(_, _, _, _)
MergeTabsFrom(prev, st, names, i) ==
    IF i > Len(names) THEN st
    ELSE MergeTabsFrom(prev, MergeTab(prev, st, names[i]), names, i + 1)

merge_tabs(prev, curr, names) ==
    MergeTabsFrom(prev, [curr |-> curr, steps |-> <<>>], names, 1)

(***************************************************************************)
(* Migration Guide Composer: create_migration_html builds the fragment,    *)
(* inject_migration_tab puts it into the current document.  The texts and  *)
(* the inline styles of the template are left out.                         *)
(***************************************************************************)
Plain(d, tag, cls) == Element(d, tag, Absent, Absent, Absent, cls, Absent, Absent)

Id_tabs == <<"t", "a", "b", "s">>
Id_tabs_migration == Id_tabs \o <<"-", "m", "i", "g", "r", "a", "t", "i", "o", "n">>
Href_tabs_migration == <<"#">> \o Id_tabs_migration

\* the rows of a table body, one after the other, at depth d
RECURSIVE Rows(_, _, _)
Rows(n, row, d) == IF n = 0 THEN <<>> ELSE AtDepth(row, d) \o Rows(n - 1, row, d)

\* _create_breaking_changes_table_content: one row of one cell when there
\* is no change, else one row of three cells per change
BreakingTableContent(auto_changes) ==
    IF auto_changes = <<>>
    THEN <<Plain(0, "tr", {}), Plain(1, "td", {}), Plain(2, "i", {})>>
    ELSE Rows(Len(auto_changes),
              <<Plain(0, "tr", {}), Plain(1, "td", {}), Plain(2, "span", {}),
                Plain(1, "td", {}), Plain(2, "code", {}), Plain(1, "td", {})>>, 0)

\* _create_mapping_table_content, for manual_mappings a list of that length
MappingTableContent(manual_mappings) ==
    IF manual_mappings = 0
    THEN <<Plain(0, "tr", {}), Plain(1, "td", {}), Plain(2, "i", {})>>
    ELSE Rows(manual_mappings,
              <<Plain(0, "tr", {}), Plain(1, "td", {}), Plain(1, "td", {}),
                Plain(1, "td", {}), Plain(2, "span", {}), Plain(1, "td", {})>>, 0)

\* the f-string html of create_migration_html, parsed
MigrationHtml(auto_changes, manual_mappings) ==
    <<Element(0, "div", Some(Id_tabs_migration), Absent, Absent, {}, Absent, Absent),
      Plain(1, "style", {}),
      Plain(1, "div", {"container-fluid"}),
      Plain(2, "h3", {}),
      Plain(2, "div", {"info-box"}),
      Plain(3, "h5", {}), Plain(3, "p", {}), Plain(3, "ul", {}),
      Plain(4, "li", {}), Plain(5, "span", {"label", "label-critical"}), Plain(5, "b", {}),
      Plain(4, "li", {}), Plain(5, "span", {"label", "label-new"}), Plain(5, "b", {}),
      Plain(4, "li", {}), Plain(5, "span", {"label", "label-info"}), Plain(5, "b", {}),
      Plain(2, "h4", {}), Plain(2, "p", {}),
      Plain(2, "table", {"grid", "table", "table-bordered", "table-striped"}),
      Plain(3, "thead", {}), Plain(4, "tr", {}),
      Plain(5, "th", {}), Plain(5, "th", {}), Plain(5, "th", {}),
      Plain(3, "tbody", {})>>
    \o AtDepth(BreakingTableContent(auto_changes), 4)
    \o <<Plain(2, "h4", {}), Plain(2, "p", {}),
         Plain(2, "table", {"grid", "table", "table-bordered", "table-hover"}),
         Plain(3, "thead", {}), Plain(4, "tr", {}),
         Plain(5, "th", {}), Plain(5, "th", {}), Plain(5, "th", {}), Plain(5, "th", {}),
         Plain(3, "tbody", {})>>
    \o AtDepth(MappingTableContent(manual_mappings), 4)

\* create_migration_html(prev_soup, curr_soup, artifact_id): the snapshot
\* tables of the two documents, and config for the toggle and the mappings
create_migration_html(prev_snap, curr_snap, cfg, manual_mappings) ==
    MigrationHtml(detect_breaking_changes(parse_snapshot_table(prev_snap).structure,
                                          parse_snapshot_table(curr_snap).structure, cfg),
                  manual_mappings)

\* tag.find(...): the first element below element i among those that match,
\* 0 for None
FindBelow(doc, i, matching) ==
    LET hits == {j \in (i + 1)..SubtreeEnd(doc, i) : j \in matching}
    IN  IF hits = {} THEN 0 ELSE Min(hits)

\* tag.append(frag): frag becomes the last child of element i
AppendChild(doc, i, frag) ==
    SubSeq(doc, 1, SubtreeEnd(doc, i)) \o AtDepth(frag, doc[i].d + 1)
        \o SubSeq(doc, SubtreeEnd(doc, i) + 1, Len(doc))

\* the elements find("ul"), find("a", href="#tabs-migration") and
\* find("div", {"id": "tabs-migration"}) match
Uls(doc) == {j \in 1..Len(doc) : doc[j].tag = "ul"}
MigrationLinks(doc) ==
    {j \in 1..Len(doc) : doc[j].tag = "a" /\ doc[j].href = Some(Href_tabs_migration)}
MigrationDivs(doc) ==
    {j \in 1..Len(doc) : doc[j].tag = "div" /\ doc[j].id = Some(Id_tabs_migration)}

\* new_li with new_a inside
NavEntry ==
    <<Plain(0, "li", {}),
      Element(1, "a", Absent, Absent, Some(Href_tabs_migration), {}, Absent, Absent)>>

\* variant: the entry added without looking for one
NavEntryMissingAlways(doc, ul) == TRUE

\* not ul.find("a", href="#tabs-migration")
NavEntryMissing(doc, ul) == FindBelow(doc, ul, MigrationLinks(doc)) = 0

inject_migration_tab(doc, content_fragment) ==
    LET tabs_container == FindDivById(doc, Id_tabs)
    IN  IF tabs_container = 0 THEN doc
        ELSE
        LET ul == FindBelow(doc, tabs_container, Uls(doc))
            listed == IF ul # 0 /\ NavEntryMissing(doc, ul)
                      THEN AppendChild(doc, ul, NavEntry) ELSE doc
            existing_div == FindBelow(listed, tabs_container, MigrationDivs(listed))
        IN  IF existing_div # 0
            THEN ReplaceWith(listed, existing_div, content_fragment)
            ELSE AppendChild(listed, tabs_container, content_fragment)

(***************************************************************************)
(* Inputs of the injection: pages with or without the tabs container, its  *)
(* navigation list and the entry and the region of an earlier injection.   *)
(***************************************************************************)
Id_tabs_key == Id_tabs \o <<"-", "k", "e", "y">>

NavLink(id) ==
    <<Plain(0, "li", {}),
      Element(1, "a", Absent, Absent, Some(<<"#">> \o id), {}, Absent, Absent)>>

\* entries: the hrefs of the list, in order; panels: the regions behind it;
\* d: the depth of the container
TabsContainer(has_ul, entries, panels, d) ==
    <<Element(d, "div", Some(Id_tabs), Absent, Absent, {}, Absent, Absent)>>
    \o (IF has_ul
        THEN <<Plain(d + 1, "ul", {})>> \o AtDepth(entries, d + 2)
        ELSE <<>>)
    \o AtDepth(panels, d + 1)

Panel_key == <<Element(0, "div", Some(Id_tabs_key), Absent, Absent, {}, Absent, Absent),
               Plain(1, "ul", {}), Plain(2, "li", {})>>

\* the fragments the calls pass in: no change, one change, two changes
Record_removed_A ==
    ChangeRecord("INFO", "Removed", Str_A, Desc("Element removed.", <<>>, <<>>))

ChangeLists == {<<>>, <<Record_removed_A>>, <<Record_removed_A, Record_removed_A>>}

Fragments == {MigrationHtml(auto_changes, 0) : auto_changes \in ChangeLists}

TabSoups ==
    {<<Plain(0, "div", {})>>}
    \cup {(IF d = 1 THEN <<Plain(0, "div", {})>> ELSE <<>>)
          \o TabsContainer(has_ul, entries, panels \o earlier, d) :
             d \in {0, 1},
             has_ul \in BOOLEAN,
             entries \in {NavLink(Id_tabs_key),
                          NavLink(Id_tabs_key) \o NavLink(Id_tabs_migration),
                          NavLink(Id_tabs_migration) \o NavLink(Id_tabs_key)},
             panels \in {<<>>, Panel_key},
             earlier \in {<<>>} \cup Fragments}

(***************************************************************************)
(* Inputs of the merge: two documents with the configured table regions.   *)
(***************************************************************************)
Tbl_1 == <<"t", "1">>
Tbl_2 == <<"t", "2">>
Id_x == <<"x">>

\* config["tables"]
table_names == <<Tbl_1, Tbl_2>>

Tab_1 == <<"b", "1">>
Tab_2 == <<"b", "2">>

\* config["tabs"]
tabs_names == <<Tab_1, Tab_2>>

\* what a table region may hold: an element with an id, a named anchor, a
\* link to that id or name, a link to the region itself, a cell with a
\* nowrap style, an input with a handler naming the id
Kid_div_x == Element(1, "div", Some(Id_x), Absent, Absent, {}, Absent, Absent)
Kid_anchor_x == Element(1, "a", Absent, Some(Id_x), Absent, {}, Absent, Absent)
Kid_link_x == Element(1, "a", Absent, Absent, Some(<<"#">> \o Id_x), {}, Absent, Absent)
Kid_link_t1 == Element(1, "a", Absent, Absent, Some(<<"#">> \o Tbl_1), {}, Absent, Absent)
Kid_td == Element(1, "td", Absent, Absent, Absent, {},
                  Some(<<"white-space", ":", " ", "nowrap", ";">>), Absent)
Kid_input == Element(1, "input", Absent, Absent, Absent, {}, Absent,
                     Some(<<"f", "(", "this.value", " ", ",", "'", "x", "'", ")">>))

Kids == {Kid_div_x, Kid_anchor_x, Kid_link_x, Kid_link_t1, Kid_td, Kid_input}

Region(region, d) == Element(d, "div", Some(region), Absent, Absent, {}, Absent, Absent)

\* the second region, with one cell
Region_2(d) ==
    <<Region(Tbl_2, d),
      Element(d + 1, "td", Absent, Absent, Absent, {}, Absent, Absent)>>

\* a document: the first region with its elements, or without it; the second
\* region beside it, inside it, or missing
Document(has_t1, kids, t2) ==
    (IF has_t1 THEN <<Region(Tbl_1, 0)>> \o kids ELSE <<>>)
    \o (IF t2 = "sibling" THEN Region_2(0)
        ELSE IF t2 = "nested" THEN Region_2(1) ELSE <<>>)

Documents(n) ==
    {Document(TRUE, kids, t2) :
        kids \in UNION {[1..m -> Kids] : m \in 0..n},
        t2 \in {"absent", "sibling", "nested"}}
    \cup {Document(FALSE, <<>>, t2) : t2 \in {"absent", "sibling"}}

(***************************************************************************)
(* Inputs of the two merge loops together: documents in which each of the  *)
(* configured table and tab regions is present or missing, a region may    *)
(* lie inside another one, and every region holds some cells.              *)
(***************************************************************************)
Cells(n, d) ==
    [j \in 1..n |-> Element(d, "td", Absent, Absent, Absent, {}, Absent, Absent)]

\* present is the set of regions the document has; every region holds n
\* cells; nesting puts the first table inside the first tab ("tab"), the
\* second table inside the first table ("table"), or neither ("flat")
RegionDocument(present, nesting, n) ==
    LET block(r, d) == IF r \in present THEN <<Region(r, d)>> \o Cells(n, d + 1) ELSE <<>>
        tables(d) == IF nesting = "table" /\ Tbl_1 \in present
                     THEN <<Region(Tbl_1, d)>> \o block(Tbl_2, d + 1) \o Cells(n, d + 1)
                     ELSE block(Tbl_1, d)
    IN  (IF nesting = "tab" /\ Tab_1 \in present
         THEN <<Region(Tab_1, 0)>> \o tables(1) \o Cells(n, 1)
         ELSE block(Tab_1, 0) \o tables(0))
        \o (IF nesting = "table" /\ Tbl_1 \in present THEN <<>> ELSE block(Tbl_2, 0))
        \o block(Tab_2, 0)

RegionDocuments(n) ==
    {RegionDocument(present, nesting, k) :
        present \in SUBSET {Tbl_1, Tbl_2, Tab_1, Tab_2},
        nesting \in {"flat", "tab", "table"}, k \in 0..n}

(***************************************************************************)
(* Inputs of the isolation alone: a block whose elements carry the         *)
(* identifiers "x" and "prev-x" and handlers that name them.               *)
(***************************************************************************)
Id_prev_x == Prefix_prev \o Id_x

Kid_div_prev_x == Element(1, "div", Some(Id_prev_x), Absent, Absent, {}, Absent, Absent)

\* f('x')   f("x")   g x ;    x x    f('prev-x')   f('xy')
\* this.value=='x'   and the empty handler
Handlers ==
    {<<"f", "(", "'", "x", "'", ")">>,
     <<"f", "(", "\"", "x", "\"", ")">>,
     <<"g", " ", "x", " ", ";">>,
     <<" ", "x", " ", "x", " ">>,
     <<"f", "(", "'">> \o Id_prev_x \o <<"'", ")">>,
     <<"f", "(", "'", "x", "y", "'", ")">>,
     <<"this.value", "=", "=", "'", "x", "'">>,
     <<>>}

Kid_handler(h) == Element(1, "input", Absent, Absent, Absent, {}, Absent, Some(h))

IsoKids == {Kid_div_x, Kid_div_prev_x, Kid_anchor_x} \cup {Kid_handler(h) : h \in Handlers}

IsoBlocks ==
    {<<Region(Tbl_1, 0)>> \o kids : kids \in UNION {[1..m -> IsoKids] : m \in 0..MaxHandlers}}

(***************************************************************************)
(* replace_artifact_file and the loop of __main__ over common_ids.  A path *)
(* is <<kind, artifact_name>> with kind "prev_original", "curr_original",  *)
(* "prev_copy" or "curr_copy".  A file is [status, snap, body] with status *)
(* "absent", "undecodable" (reading it raises UnicodeDecodeError) or       *)
(* "page"; snap is the snapshot table as parse_snapshot_table reads it,    *)
(* kept apart from the rest of the markup, and body is that markup, held   *)
(* as the tags str(soup) writes.                                           *)
(***************************************************************************)
Snap_none == [has_div |-> FALSE, has_table |-> FALSE, rows |-> <<>>]

File_absent == [status |-> "absent", snap |-> Snap_none, body |-> <<>>]
File_undecodable == [status |-> "undecodable", snap |-> Snap_none, body |-> <<>>]
PageFile(snap, body) == [status |-> "page", snap |-> snap, body |-> body]

\* variant: the cached copy ignored
ReadOriginalAlways(fs, copy, original) == fs[original]

\* the if/else around the two reads: the copy when it is a file, else the
\* original
ReadCached(fs, copy, original) ==
    IF fs[copy] # File_absent THEN fs[copy] ELSE fs[original]

\* FileNotFoundError or UnicodeDecodeError
ReadFails(content) == content.status # "page"

\* lines 748-758: the two documents parsed, the migration tab injected, the
\* tables and the tabs merged, the current document written back
\* (each step's document is bound once, as the only element of a set, before
\* the next step works on it)
MergedPage(content_prev, content_curr, cfg) ==
    LET soup_prev == {ParseHtml(content_prev.body)}
        injected ==
            {inject_migration_tab(curr, migration_html) :
                 curr \in {ParseHtml(content_curr.body)},
                 migration_html \in {create_migration_html(content_prev.snap,
                                                           content_curr.snap, cfg, 0)}}
        tables == {merge_tables(prev, curr, table_names).curr :
                       prev \in soup_prev, curr \in injected}
        tabs == {merge_tabs(prev, curr, tabs_names).curr :
                     prev \in soup_prev, curr \in tables}
        written == {Serialize(curr) : curr \in tabs}
    IN  PageFile(content_curr.snap, CHOOSE body \in written : TRUE)

\* replace_artifact_file(artifact_name, ...): the file system it leaves and
\* what it did
replace_artifact_file(fs, artifact_name, cfg) ==
    LET prev_file_original == <<"prev_original", artifact_name>>
        curr_file_original == <<"curr_original", artifact_name>>
        prev_file_copy == <<"prev_copy", artifact_name>>
        curr_file_copy == <<"curr_copy", artifact_name>>
        content_prev == ReadCached(fs, prev_file_copy, prev_file_original)
        copy_prev == fs[prev_file_copy] = File_absent /\ ~ReadFails(content_prev)
        fs_prev == IF copy_prev THEN [fs EXCEPT ![prev_file_copy] = content_prev] ELSE fs
        content_curr == ReadCached(fs_prev, curr_file_copy, curr_file_original)
        copy_curr == fs_prev[curr_file_copy] = File_absent /\ ~ReadFails(content_curr)
        fs_curr == IF copy_curr THEN [fs_prev EXCEPT ![curr_file_copy] = content_curr]
                   ELSE fs_prev
    IN  IF ReadFails(content_prev)
        THEN [fs |-> fs, result |-> "skipped", copied |-> {}, written |-> File_absent]
        ELSE IF ReadFails(content_curr)
        THEN [fs |-> fs_prev, result |-> "skipped",
              copied |-> IF copy_prev THEN {"prev"} ELSE {}, written |-> File_absent]
        ELSE LET merged == MergedPage(content_prev, content_curr, cfg)
             IN  [fs |-> [fs_curr EXCEPT ![curr_file_original] = merged],
                  result |-> "merged",
                  copied |-> (IF copy_prev THEN {"prev"} ELSE {})
                             \cup (IF copy_curr THEN {"curr"} ELSE {}),
                  written |-> merged]

\* variant: an artifact that is skipped ends the loop
RemainingNoneAfterSkip(remaining, artifact_id, result) ==
    IF result = "skipped" THEN {} ELSE remaining \ {artifact_id}

\* for artifact_id in common_ids: what is left when artifact_id is done
Remaining(remaining, artifact_id, result) == remaining \ {artifact_id}

(***************************************************************************)
(* Inputs of the batch: the artifacts and the pages of the two guides.     *)
(***************************************************************************)
ArtifactNames == <<"a", "b", "c", "d">>

common_ids == {ArtifactNames[i] : i \in 1..MaxArtifacts}

Kinds == {"prev_original", "curr_original", "prev_copy", "curr_copy"}

Snap_A(card) ==
    [has_div |-> TRUE, has_table |-> TRUE,
     rows |-> <<[ncols |-> 4, depth |-> 1, cell |-> Cell_A, card |-> card, type |-> "string"]>>]

\* a page with the tabs container, a tab in it and a table in the tab
TabbedPage(n) ==
    TabsContainer(TRUE, NavLink(Tab_1), <<Region(Tab_1, 0), Region(Tbl_1, 1)>> \o Cells(n, 2), 0)

Page_1 == PageFile(Snap_none, Serialize(TabbedPage(0)))
Page_2 == PageFile(Snap_A(Card_0_1), Serialize(TabbedPage(1)))
Page_3 == PageFile(Snap_A(Card_1_1), Serialize(<<Region(Tbl_1, 0)>> \o Cells(1, 1)))

\* the previous and the current page of an artifact as the guides hold them
Originals ==
    {<<File_absent, Page_1>>, <<Page_1, File_absent>>,
     <<File_undecodable, Page_1>>, <<Page_1, File_undecodable>>,
     <<Page_1, Page_2>>, <<Page_2, Page_3>>}

\* the file system of a fresh run: the originals, no cached copy
FileSystem(originals) ==
    [path \in Kinds \X common_ids |->
        IF path[1] = "prev_original" THEN originals[path[2]][1]
        ELSE IF path[1] = "curr_original" THEN originals[path[2]][2]
        ELSE File_absent]

(***************************************************************************)
(* Inputs of the diff: snapshots as parse_snapshot_table builds them.      *)
(***************************************************************************)
ConfigValues == {"absent", "true", "false"}

\* every dict of at most n entries with keys in paths and values in elems
SnapshotsOver(paths, elems, n) ==
    UNION {{s \in [1..m -> [k : paths, v : elems]] :
               \A i, j \in 1..m : s[i].k = s[j].k => i = j} :
           m \in {l \in 0..n : l <= Cardinality(paths)}}

DiffPaths == {Str_A, Str_A_B, Str_AB}
DiffElems == {ElementRecord(Card_0_1, "string"), ElementRecord(Card_1_1, "string"),
              ElementRecord(Card_0_1, "code")}

\* Diffs over every kind of cardinality cell, well-formed or not.
CardPaths == {Str_A, Str_A_B}
CardElems == {ElementRecord(c, "string") :
                 c \in {Card_0_1, Card_1_1, Card_0_n, Card_1_n, Card_2_n,
                        Card_bare, Card_x_1, Card_empty}}

(***************************************************************************)
(* The state machines: one specification per component, the other         *)
(* components idle.                                                        *)
(***************************************************************************)
DiffIdle ==
    /\ prev_struct = <<>>
    /\ curr_struct = <<>>
    /\ config = "absent"
    /\ detected = <<>>
    /\ changes = <<>>
    /\ diff_pc = "idle"

ParseIdle ==
    /\ soup = [has_div |-> FALSE, has_table |-> FALSE, rows |-> <<>>]
    /\ structure = <<>>
    /\ emitted = <<>>
    /\ parse_pc = "idle"

MergeIdle ==
    /\ prev_doc = <<>>
    /\ curr_doc = <<>>
    /\ curr_before = <<>>
    /\ iso_calls = <<>>
    /\ merge_steps = <<>>
    /\ merge_pc = "idle"

IsoIdle ==
    /\ iso_block = <<>>
    /\ iso_prefix = <<>>
    /\ iso_result = [block |-> <<>>, id_map |-> <<>>]
    /\ iso_pc = "idle"

TabIdle ==
    /\ tab_soup = <<>>
    /\ tab_before = <<>>
    /\ tab_fragment = <<>>
    /\ tab_calls = 0

BatchIdle ==
    /\ files = <<>>
    /\ files_before = <<>>
    /\ todo = {}
    /\ visited = <<>>
    /\ run = 0
    /\ outcomes = <<>>

SupIdle ==
    /\ sup_in = <<>>
    /\ sup_out = <<>>
    /\ sup_again = <<>>
    /\ sup_pc = "idle"

NotDiffIdle == ParseIdle /\ MergeIdle /\ IsoIdle /\ TabIdle /\ BatchIdle /\ SupIdle
NotParseIdle == DiffIdle /\ MergeIdle /\ IsoIdle /\ TabIdle /\ BatchIdle /\ SupIdle
NotMergeIdle == DiffIdle /\ ParseIdle /\ IsoIdle /\ TabIdle /\ BatchIdle /\ SupIdle
NotIsoIdle == DiffIdle /\ ParseIdle /\ MergeIdle /\ TabIdle /\ BatchIdle /\ SupIdle
NotTabIdle == DiffIdle /\ ParseIdle /\ MergeIdle /\ IsoIdle /\ BatchIdle /\ SupIdle
NotBatchIdle == DiffIdle /\ ParseIdle /\ MergeIdle /\ IsoIdle /\ TabIdle /\ SupIdle
NotSupIdle == DiffIdle /\ ParseIdle /\ MergeIdle /\ IsoIdle /\ TabIdle /\ BatchIdle

InitDiff ==
    /\ prev_struct \in SnapshotsOver(DiffPaths, DiffElems, MaxEntries)
    /\ curr_struct \in SnapshotsOver(DiffPaths, DiffElems, MaxEntries)
    /\ Len(prev_struct) + Len(curr_struct) <= MaxEntries
    /\ config \in ConfigValues
    /\ detected = <<>>
    /\ changes = <<>>
    /\ diff_pc = "ready"
    /\ NotDiffIdle

InitCard ==
    /\ prev_struct \in SnapshotsOver(CardPaths, CardElems, MaxEntries)
    /\ curr_struct \in SnapshotsOver(CardPaths, CardElems, MaxEntries)
    /\ Len(prev_struct) + Len(curr_struct) <= MaxEntries
    /\ config \in ConfigValues
    /\ detected = <<>>
    /\ changes = <<>>
    /\ diff_pc = "ready"
    /\ NotDiffIdle

\* changes = detect_breaking_changes(prev_struct, curr_struct)
Detect ==
    /\ diff_pc = "ready"
    /\ detected' = DetectedChanges(prev_struct, curr_struct)
    /\ changes' = detect_breaking_changes(prev_struct, curr_struct, config)
    /\ diff_pc' = "done"
    /\ UNCHANGED <<prev_struct, curr_struct, config>>
    /\ UNCHANGED not_diff_vars

NextDiff == Detect

SpecDiff == InitDiff /\ [][NextDiff]_vars

SpecCard == InitCard /\ [][NextDiff]_vars

InitParse ==
    /\ soup \in Soups
    /\ structure = <<>>
    /\ emitted = <<>>
    /\ parse_pc = "ready"
    /\ NotParseIdle

\* structure = parse_snapshot_table(soup)
Parse ==
    /\ parse_pc = "ready"
    /\ structure' = parse_snapshot_table(soup).structure
    /\ emitted' = parse_snapshot_table(soup).emitted
    /\ parse_pc' = "done"
    /\ UNCHANGED soup
    /\ UNCHANGED not_parse_vars

NextParse == Parse

SpecParse == InitParse /\ [][NextParse]_vars

InitMerge ==
    /\ \E n \in 0..MaxNodes :
          /\ prev_doc \in Documents(n)
          /\ curr_doc \in Documents(MaxNodes - n)
    /\ curr_before = curr_doc
    /\ iso_calls = <<>>
    /\ merge_steps = <<>>
    /\ merge_pc = "ready"
    /\ NotMergeIdle

\* merge_tables(prev, curr)
MergeTables ==
    /\ merge_pc = "ready"
    /\ curr_doc' = merge_tables(prev_doc, curr_doc, table_names).curr
    /\ iso_calls' = merge_tables(prev_doc, curr_doc, table_names).calls
    /\ merge_steps' = merge_tables(prev_doc, curr_doc, table_names).steps
    /\ merge_pc' = "done"
    /\ UNCHANGED <<prev_doc, curr_before>>
    /\ UNCHANGED not_merge_vars

NextMerge == MergeTables

SpecMerge == InitMerge /\ [][NextMerge]_vars

InitRegions ==
    /\ prev_doc \in RegionDocuments(MaxCells)
    /\ curr_doc \in RegionDocuments(MaxCells)
    /\ curr_before = curr_doc
    /\ iso_calls = <<>>
    /\ merge_steps = <<>>
    /\ merge_pc = "ready"
    /\ NotMergeIdle

\* merge_tabs(prev, curr), called when merge_tables has returned
MergeTabs ==
    /\ merge_pc = "done"
    /\ curr_doc' = merge_tabs(prev_doc, curr_doc, tabs_names).curr
    /\ merge_steps' = merge_steps \o merge_tabs(prev_doc, curr_doc, tabs_names).steps
    /\ merge_pc' = "merged"
    /\ UNCHANGED <<prev_doc, curr_before, iso_calls>>
    /\ UNCHANGED not_merge_vars

NextRegions == MergeTables \/ MergeTabs

SpecRegions == InitRegions /\ [][NextRegions]_vars

InitIso ==
    /\ iso_block \in IsoBlocks
    /\ iso_prefix \in {Prefix_prev, Prefix_curr}
    /\ iso_result = [block |-> <<>>, id_map |-> <<>>]
    /\ iso_pc = "ready"
    /\ NotIsoIdle

\* rewrite_ids(block, prefix)
Isolate ==
    /\ iso_pc = "ready"
    /\ iso_result' = rewrite_ids(iso_block, iso_prefix)
    /\ iso_pc' = "done"
    /\ UNCHANGED <<iso_block, iso_prefix>>
    /\ UNCHANGED not_iso_vars

NextIso == Isolate

SpecIso == InitIso /\ [][NextIso]_vars

InitTab ==
    /\ tab_soup \in TabSoups
    /\ tab_before = tab_soup
    /\ tab_fragment = <<>>
    /\ tab_calls = 0
    /\ NotTabIdle

\* inject_migration_tab(soup, content_fragment), with a fragment made anew
Inject ==
    /\ tab_before # <<>>
    /\ tab_calls < MaxCalls
    /\ \E content_fragment \in Fragments :
          /\ tab_soup' = inject_migration_tab(tab_soup, content_fragment)
          /\ tab_fragment' = content_fragment
    /\ tab_calls' = tab_calls + 1
    /\ UNCHANGED tab_before
    /\ UNCHANGED not_tab_vars

NextTab == Inject

SpecTab == InitTab /\ [][NextTab]_vars

InitBatch ==
    /\ \E originals \in [common_ids -> Originals] : files = FileSystem(originals)
    /\ files_before = files
    /\ todo = common_ids
    /\ visited = <<>>
    /\ run = 1
    /\ outcomes = [artifact_id \in common_ids |-> <<>>]
    /\ NotBatchIdle

\* one iteration of the loop at lines 832-834
ReplaceArtifact ==
    /\ run >= 1
    /\ \E artifact_id \in todo :
          \E call \in {replace_artifact_file(files, artifact_id, config)} :
              /\ files' = call.fs
              /\ todo' = Remaining(todo, artifact_id, call.result)
              /\ visited' = Append(visited, artifact_id)
              /\ outcomes' = [outcomes EXCEPT ![artifact_id] =
                                  Append(@, [run |-> run, result |-> call.result,
                                             copied |-> call.copied,
                                             written |-> call.written])]
    /\ UNCHANGED <<files_before, run>>
    /\ UNCHANGED not_batch_vars

\* the program run again on the files the run before left
Rerun ==
    /\ run >= 1
    /\ run < MaxRuns
    /\ todo = {}
    /\ run' = run + 1
    /\ todo' = common_ids
    /\ visited' = <<>>
    /\ UNCHANGED <<files, files_before, outcomes>>
    /\ UNCHANGED not_batch_vars

NextBatch == ReplaceArtifact \/ Rerun

SpecBatch == InitBatch /\ [][NextBatch]_vars

\* suppress_child_changes on its own: every list of records of the three
\* types over a chain of three paths and a path that shares a prefix only
SuppressPaths == {Str_A, Str_A_B, Str_A_B_C, Str_AB}

SuppressRecords ==
    UNION {{RemovedRecord(p, ElementRecord(Card_0_1, "string")),
            NewRecord(p, ElementRecord(Card_0_1, "string")),
            ChangedRecord(p, ElementRecord(Card_0_1, "string"),
                          ElementRecord(Card_1_1, "string"))} : p \in SuppressPaths}

InitSuppress ==
    /\ sup_in \in UNION {[1..n -> SuppressRecords] : n \in 0..MaxChanges}
    /\ sup_out = <<>>
    /\ sup_again = <<>>
    /\ sup_pc = "ready"
    /\ NotSupIdle

\* filtered = suppress_child_changes(changes)
Suppress ==
    /\ sup_pc = "ready"
    /\ sup_out' = suppress_child_changes(sup_in)
    /\ sup_pc' = "done"
    /\ UNCHANGED <<sup_in, sup_again>>
    /\ UNCHANGED not_sup_vars

\* suppress_child_changes(filtered)
SuppressAgain ==
    /\ sup_pc = "done"
    /\ sup_again' = suppress_child_changes(sup_out)
    /\ sup_pc' = "again"
    /\ UNCHANGED <<sup_in, sup_out>>
    /\ UNCHANGED not_sup_vars

NextSuppress == Suppress \/ SuppressAgain

SpecSuppress == InitSuppress /\ [][NextSuppress]_vars

\* The whole program: any of the components, started on its inputs.
Init ==
    \/ InitDiff \/ InitCard \/ InitParse \/ InitMerge \/ InitRegions \/ InitIso
    \/ InitTab \/ InitBatch \/ InitSuppress

Next ==
    \/ Detect \/ Parse \/ MergeTables \/ MergeTabs \/ Isolate \/ Inject
    \/ ReplaceArtifact \/ Rerun \/ Suppress \/ SuppressAgain

Spec == Init /\ [][Next]_vars

(***************************************************************************)
(* Properties of the diff (SpecDiff).                                       *)
(***************************************************************************)
RecordsOf(recs, type, path) ==
    {i \in 1..Len(recs) : recs[i].type = type /\ recs[i].element = path}

PrevOnly == DictKeys(prev_struct) \ DictKeys(curr_struct)
CurrOnly == DictKeys(curr_struct) \ DictKeys(prev_struct)
InBoth == DictKeys(prev_struct) \cap DictKeys(curr_struct)

\* p is a strict dotted descendant of q: the segments of q are a proper
\* prefix of the segments of p
StrictDescendant(p, q) ==
    /\ Len(SplitDot(q)) < Len(SplitDot(p))
    /\ SubSeq(SplitDot(p), 1, Len(SplitDot(q))) = SplitDot(q)

\* p lies under a path that was removed or is new
UnderRemovedOrNew(p) == \E q \in PrevOnly \cup CurrOnly : StrictDescendant(p, q)

\* C1 as stated: the returned list holds exactly one Removed record for every
\* path only in previous, exactly one New record for every path only in
\* current, and no Changed record for a path in both with equal cardinalities.
C1_ExactlyOnePerPath ==
    diff_pc = "done" =>
        /\ \A p \in PrevOnly : Cardinality(RecordsOf(changes, "Removed", p)) = 1
        /\ \A p \in CurrOnly : Cardinality(RecordsOf(changes, "New", p)) = 1
        /\ \A p \in InBoth :
              DictGet(prev_struct, p).card = DictGet(curr_struct, p).card
                  => RecordsOf(changes, "Changed", p) = {}

\* C1 amended: the returned list holds exactly one Removed (New) record for
\* every path only in previous (current) that child suppression does not hide,
\* none for a path it hides (a strict dotted descendant of a removed or new
\* path, with suppression enabled) or for any other path, and no Changed
\* record for a path in both with equal cardinalities.
C1_ExactlyOneUnlessSuppressed ==
    diff_pc = "done" =>
        \A p \in DictKeys(prev_struct) \cup DictKeys(curr_struct) :
            LET hidden == ChildrenHidden(config) /\ UnderRemovedOrNew(p)
            IN  /\ Cardinality(RecordsOf(changes, "Removed", p)) =
                       (IF p \in PrevOnly /\ ~hidden THEN 1 ELSE 0)
                /\ Cardinality(RecordsOf(changes, "New", p)) =
                       (IF p \in CurrOnly /\ ~hidden THEN 1 ELSE 0)
                /\ (p \in InBoth
                    /\ DictGet(prev_struct, p).card = DictGet(curr_struct, p).card)
                       => RecordsOf(changes, "Changed", p) = {}

\* C1 witness: a removed path, a new path hidden under it, and a path in
\* both with equal cardinalities, diffed with suppression enabled
C1_Witness ==
    /\ diff_pc = "done"
    /\ ChildrenHidden(config)
    /\ Str_A \in PrevOnly
    /\ Str_A_B \in CurrOnly
    /\ RecordsOf(changes, "New", Str_A_B) = {}
    /\ Str_AB \in InBoth
    /\ DictGet(prev_struct, Str_AB).card = DictGet(curr_struct, Str_AB).card

\* C4: a Removed record is CRITICAL when the removed element's mandatory flag
\* is set and INFO otherwise; a New record is BREAKING when the new element's
\* flag is set and INFO otherwise.
C4_RemovedNewSeverity ==
    diff_pc = "done" =>
        \A i \in 1..Len(changes) :
            /\ changes[i].type = "Removed" =>
                   changes[i].severity =
                       (IF DictGet(prev_struct, changes[i].element).is_mandatory
                        THEN "CRITICAL" ELSE "INFO")
            /\ changes[i].type = "New" =>
                   changes[i].severity =
                       (IF DictGet(curr_struct, changes[i].element).is_mandatory
                        THEN "BREAKING" ELSE "INFO")

\* C4 witness: a list with a CRITICAL and an INFO Removed record and a
\* BREAKING New record
C4_Witness ==
    /\ diff_pc = "done"
    /\ \E i, j, k \in 1..Len(changes) :
          /\ changes[i].type = "Removed" /\ changes[i].severity = "CRITICAL"
          /\ changes[j].type = "Removed" /\ changes[j].severity = "INFO"
          /\ changes[k].type = "New" /\ changes[k].severity = "BREAKING"

\* the rank the ordering is stated with
StatedRank(r) ==
    CASE r.severity = "CRITICAL" -> 1
      [] r.severity = "BREAKING" -> 2
      [] r.severity \in {"INFO", "WARNING"} /\ r.type # "New" -> 3
      [] r.severity \notin {"CRITICAL", "BREAKING"} /\ r.type = "New" -> 4
      [] OTHER -> 5

\* C5: every two adjacent records of the returned list are in (rank, path)
\* order, with and without child suppression.
C5_SortedByRankThenPath ==
    diff_pc = "done" =>
        \A i \in 1..(Len(changes) - 1) :
            \/ StatedRank(changes[i]) < StatedRank(changes[i + 1])
            \/ /\ StatedRank(changes[i]) = StatedRank(changes[i + 1])
               /\ \/ changes[i].element = changes[i + 1].element
                  \/ StrLess(changes[i].element, changes[i + 1].element)

\* C5 witness: three records of which two share a rank, returned in another
\* order than the loops detected them
C5_Witness ==
    /\ diff_pc = "done"
    /\ Len(changes) = 3
    /\ changes # detected
    /\ StatedRank(changes[1]) = StatedRank(changes[2])
    /\ StatedRank(changes[2]) < StatedRank(changes[3])

\* C6: with suppression enabled (also when the toggle is absent) the returned
\* list holds no record under a removed or new path; with the toggle false
\* every detected record is returned.
C6_ChildrenSuppressed ==
    diff_pc = "done" =>
        /\ config \in {"absent", "true"} =>
               \A i \in 1..Len(changes) : ~UnderRemovedOrNew(changes[i].element)
        /\ config = "false" =>
               /\ Len(changes) = Len(detected)
               /\ \A i \in 1..Len(detected) :
                      \E j \in 1..Len(changes) : changes[j] = detected[i]

\* C6 witness: Removed("A") and Changed("A.B") detected with the toggle
\* absent, and only Removed("A") returned
C6_Witness ==
    /\ diff_pc = "done"
    /\ config = "absent"
    /\ Len(detected) = 2
    /\ RecordsOf(detected, "Removed", Str_A) # {}
    /\ RecordsOf(detected, "Changed", Str_A_B) # {}
    /\ Len(changes) = 1
    /\ changes[1].type = "Removed"
    /\ changes[1].element = Str_A

(***************************************************************************)
(* Properties of the cardinality comparison (SpecCard).                     *)
(***************************************************************************)
PrevCard(p) == DictGet(prev_struct, p).card
CurrCard(p) == DictGet(curr_struct, p).card
BothParse(p) == CardParses(PrevCard(p)) /\ CardParses(CurrCard(p))

\* C2: a Changed record of two cardinalities that parse is BREAKING exactly
\* when the minimum increased or the maximum went from "*" to something
\* else, and INFO otherwise; 0..1 -> 1..1, 0..* -> 0..1 and 0..* -> 1..* are
\* BREAKING.
C2_BreakingIffTightened ==
    diff_pc = "done" =>
        \A i \in 1..Len(changes) :
            LET p == changes[i].element
            IN  (changes[i].type = "Changed" /\ BothParse(p)) =>
                    /\ changes[i].severity =
                          (IF \/ CardMin(PrevCard(p)) < CardMin(CurrCard(p))
                              \/ /\ CardMax(PrevCard(p)) = <<"*">>
                                 /\ CardMax(CurrCard(p)) # <<"*">>
                           THEN "BREAKING" ELSE "INFO")
                    /\ <<PrevCard(p), CurrCard(p)>> \in
                           {<<Card_0_1, Card_1_1>>, <<Card_0_n, Card_0_1>>,
                            <<Card_0_n, Card_1_n>>}
                           => changes[i].severity = "BREAKING"

\* C2 witness: two Changed records returned, 0..* -> 0..1 with the minimum
\* unchanged rated BREAKING and 1..* -> 0..* rated INFO
C2_Witness ==
    /\ diff_pc = "done"
    /\ \E i, j \in 1..Len(changes) :
          /\ changes[i].type = "Changed"
          /\ PrevCard(changes[i].element) = Card_0_n
          /\ CurrCard(changes[i].element) = Card_0_1
          /\ changes[i].severity = "BREAKING"
          /\ changes[j].type = "Changed"
          /\ PrevCard(changes[j].element) = Card_1_n
          /\ CurrCard(changes[j].element) = Card_0_n
          /\ changes[j].severity = "INFO"

\* C3 as stated: every Changed record of two cardinalities that parse, the
\* current minimum lower than the previous one, carries the loosening note,
\* also when the maximum went from "*" to a bounded value.
C3_LoosenedNoteWheneverMinDecreased ==
    diff_pc = "done" =>
        \A i \in 1..Len(changes) :
            LET p == changes[i].element
            IN  (/\ changes[i].type = "Changed"
                 /\ BothParse(p)
                 /\ CardMin(CurrCard(p)) < CardMin(PrevCard(p)))
                    => \E n \in 1..Len(changes[i].desc.notes) :
                           changes[i].desc.notes[n] = NoteLoosened

\* the two snapshots and the result without path p
Without(d, p) == SelectSeq(d, LAMBDA e : e.k # p)
WithoutElement(recs, p) == SelectSeq(recs, LAMBDA r : r.element # p)

\* C7: for a path in both snapshots whose cardinalities differ and do not
\* both parse, the diff completes; its Changed loop emits exactly one record
\* for the path, of severity INFO, described by the two raw strings with no
\* note; the returned list holds no other record for the path; and the
\* records of the other paths are those of the diff without this path.
C7_MalformedCardinalityIsInfo ==
    diff_pc = "done" =>
        \A p \in InBoth :
            (PrevCard(p) # CurrCard(p) /\ ~BothParse(p)) =>
                LET plain == [severity |-> "INFO", type |-> "Changed", element |-> p,
                              desc |-> [text |-> "Cardinality changed: ",
                                        prev |-> PrevCard(p), curr |-> CurrCard(p),
                                        notes |-> <<>>]]
                IN  /\ \E i \in 1..Len(detected) :
                          /\ detected[i] = plain
                          /\ \A j \in 1..Len(detected) :
                                 detected[j].element = p => j = i
                    /\ \A i \in 1..Len(changes) :
                           changes[i].element = p => changes[i] = plain
                    /\ WithoutElement(changes, p) =
                           detect_breaking_changes(Without(prev_struct, p),
                                                   Without(curr_struct, p), config)

\* C7 witness: a returned list with the plain INFO record of a path whose
\* current cardinality cell is empty, next to the record of another path
C7_Witness ==
    /\ diff_pc = "done"
    /\ Len(changes) = 2
    /\ \E i \in 1..2 :
          /\ changes[i].type = "Changed"
          /\ changes[i].severity = "INFO"
          /\ changes[i].desc.notes = <<>>
          /\ PrevCard(changes[i].element) = Card_0_1
          /\ CurrCard(changes[i].element) = Card_empty

(***************************************************************************)
(* Properties of the structure extractor (SpecParse).                       *)
(***************************************************************************)
\* C8 as stated: every path entered into the snapshot has as many
\* dot-separated segments as its row has hierarchy markers, none empty.
C8_SegmentsEqualDepth ==
    parse_pc = "done" =>
        \A e \in 1..Len(emitted) :
            /\ Len(SplitDot(emitted[e].path)) = emitted[e].depth
            /\ \A g \in 1..Len(SplitDot(emitted[e].path)) :
                   SplitDot(emitted[e].path)[g] # <<>>

\* the rows of the table that are not skipped, in order
KeptRows == SelectSeq(soup.rows, LAMBDA r : ~RowSkipped(r))

\* a hierarchy that starts at depth 1, never descends by more than one level
\* from one kept row to the next, and has no "." in a name
ValidHierarchy ==
    /\ KeptRows # <<>> => KeptRows[1].depth = 1
    /\ \A i \in 1..(Len(KeptRows) - 1) : KeptRows[i + 1].depth <= KeptRows[i].depth + 1
    /\ \A i \in 1..Len(KeptRows) :
           \A c \in 1..Len(LocalName(KeptRows[i].cell)) :
               LocalName(KeptRows[i].cell)[c] # "."

\* C8 amended: in a table whose kept rows form a valid hierarchy, every path
\* entered into the snapshot has as many dot-separated segments as its row
\* has hierarchy markers, none empty.
C8_SegmentsEqualDepthIfValid ==
    (parse_pc = "done" /\ ValidHierarchy) =>
        \A e \in 1..Len(emitted) :
            /\ Len(SplitDot(emitted[e].path)) = emitted[e].depth
            /\ \A g \in 1..Len(SplitDot(emitted[e].path)) :
                   SplitDot(emitted[e].path)[g] # <<>>

\* C8 witness: a valid hierarchy of three kept rows, the last one back up at
\* the depth of the second, all entered into the snapshot
C8_Witness ==
    /\ parse_pc = "done"
    /\ ValidHierarchy
    /\ Len(emitted) = 3
    /\ emitted[2].depth = 2
    /\ emitted[3].depth = 2
    /\ emitted[2].path # emitted[3].path
    /\ Len(structure) = 3

(***************************************************************************)
(* Properties of the isolation and the merge (SpecMerge).                   *)
(***************************************************************************)
\* the identifiers a fragment defines: ids and anchor names
IdsOf(frag) ==
    {frag[i].id[1] : i \in {j \in 1..Len(frag) : frag[j].id # Absent}}
    \cup {frag[i].name[1] :
             i \in {j \in 1..Len(frag) : frag[j].tag = "a" /\ frag[j].name # Absent}}

\* the merged blocks of a document, and the copy inside a wrapper of a block
MergedBlocks(doc) == {i \in 1..Len(doc) : "merged-table-container" \in doc[i].cls}

SideOf(doc, block, wrapper_class) ==
    LET w == Min({j \in block..SubtreeEnd(doc, block) : wrapper_class \in doc[j].cls})
    IN  SubSeq(doc, w + 1, SubtreeEnd(doc, w))

\* C9 as stated: in every merged block each identifier of the previous-side
\* copy starts with "prev-" and each identifier of the current-side copy with
\* "curr-", the copied root containers included, so the two sides share no
\* identifier.
C9_SidesShareNoIdentifier ==
    merge_pc = "done" =>
        \A b \in MergedBlocks(curr_doc) :
            LET prev_side == SideOf(curr_doc, b, "prev-container")
                curr_side == SideOf(curr_doc, b, "curr-container")
            IN  /\ \A x \in IdsOf(prev_side) : StartsWith(x, Prefix_prev)
                /\ \A x \in IdsOf(curr_side) : StartsWith(x, Prefix_curr)
                /\ IdsOf(prev_side) \cap IdsOf(curr_side) = {}

\* C10: in every call of rewrite_ids the id_map sends distinct identifiers to
\* distinct prefixed identifiers, and every link "#x" of the block whose
\* target was an id or anchor name of the block points, after the call, at an
\* id or anchor name of the block.
C10_InjectiveAndLinksResolve ==
    \A c \in 1..Len(iso_calls) :
        LET call == iso_calls[c]
        IN  /\ \A i, j \in 1..Len(call.id_map) :
                   call.id_map[i].v = call.id_map[j].v
                       => call.id_map[i].k = call.id_map[j].k
            /\ \A i \in 1..Len(call.before) :
                   (/\ call.before[i].tag = "a"
                    /\ call.before[i].href # Absent
                    /\ StartsWith(call.before[i].href[1], <<"#">>)
                    /\ Tail(call.before[i].href[1]) \in IdsOf(call.before))
                       => /\ call.after[i].href # Absent
                          /\ StartsWith(call.after[i].href[1], <<"#">>)
                          /\ Tail(call.after[i].href[1]) \in IdsOf(call.after)

\* C10 witness: a call that mapped two identifiers and rewrote a link to one
\* of them, beside a link to the root of the block
C10_Witness ==
    \E c \in 1..Len(iso_calls) :
        LET call == iso_calls[c]
        IN  /\ Len(call.id_map) = 2
            /\ \E i, j, k \in 1..Len(call.before) :
                   /\ call.before[i].href = Some(<<"#">> \o Id_x)
                   /\ call.after[i].href = Some(<<"#">> \o call.prefix \o Id_x)
                   /\ call.after[j].id = Some(call.prefix \o Id_x)
                   /\ call.before[k].href = Some(<<"#">> \o Tbl_1)
                   /\ call.after[k].href = Some(<<"#">> \o Tbl_1)

(***************************************************************************)
(* Properties of the handler rewriting (SpecIso).                           *)
(***************************************************************************)
\* old occurs at position i of h between two quotes of one kind or between
\* two spaces
OccursAt(h, i, old) ==
    /\ i >= 2
    /\ i + Len(old) <= Len(h)
    /\ SubSeq(h, i, i + Len(old) - 1) = old
    /\ h[i - 1] = h[i + Len(old)]
    /\ h[i - 1] \in {"'", "\"", " "}

\* h with the prefix put once in front of every such occurrence of an
\* identifier of olds, and nothing else changed
RECURSIVE PrefixedOnce(_, _, _, _)
PrefixedOnce(h, i, olds, prefix) ==
    IF i > Len(h) THEN <<>>
    ELSE (IF \E old \in olds : OccursAt(h, i, old) THEN prefix ELSE <<>>)
         \o <<h[i]>> \o PrefixedOnce(h, i + 1, olds, prefix)

\* C11 as stated: every handler of the block comes out of rewrite_ids as its
\* value-normalised text with each quoted or space-delimited occurrence of an
\* identifier of the id_map prefixed exactly once and no other text changed,
\* whatever the id_map, also when it holds both "x" and "prev-x".
C11_EachOccurrencePrefixedOnce ==
    iso_pc = "done" =>
        \A i \in 2..Len(iso_block) :
            iso_block[i].on # Absent =>
                iso_result.block[i].on =
                    Some(PrefixedOnce(NormalizeValueReads(iso_block[i].on[1]), 1,
                                      DictKeys(iso_result.id_map), iso_prefix))

(***************************************************************************)
(* Properties of the two merge loops (SpecRegions).                         *)
(***************************************************************************)
\* the regions whose iteration is over, in the order of the two loops
RegionsDone ==
    IF merge_pc = "done" THEN table_names
    ELSE IF merge_pc = "merged" THEN table_names \o tabs_names
    ELSE <<>>

\* the class that marks the block a loop puts in place of a region
MergedClass(region) ==
    IF \E i \in 1..Len(table_names) : table_names[i] = region
    THEN "merged-table-container" ELSE "merged-tab-content"

\* C12: each loop runs one iteration per configured region, in order, on the
\* document the iteration before left; an iteration whose region is missing
\* from the previous document, from the current document or from both leaves
\* the current document as it is, and an iteration whose region is in both
\* puts the merged block in the place of the current document's region.
C12_MissingRegionSkipped ==
    /\ Len(merge_steps) = Len(RegionsDone)
    /\ \A s \in 1..Len(merge_steps) :
           LET step == merge_steps[s]
               in_prev == FindDivById(prev_doc, step.region) # 0
               at == FindDivById(step.before, step.region)
           IN  /\ step.region = RegionsDone[s]
               /\ step.before = (IF s = 1 THEN curr_before ELSE merge_steps[s - 1].after)
               /\ ~(in_prev /\ at # 0) => step.after = step.before
               /\ (in_prev /\ at # 0) =>
                      /\ MergedClass(step.region) \in step.after[at].cls
                      /\ MergedClass(step.region) \notin step.before[at].cls
                      /\ SubSeq(step.after, 1, at - 1) = SubSeq(step.before, 1, at - 1)
    /\ merge_pc \in {"done", "merged"} => curr_doc = merge_steps[Len(merge_steps)].after

\* C12 witness: both loops over, with a table missing from the previous
\* document only, a tab missing from both, and the table and the tab behind
\* them merged
C12_Witness ==
    /\ merge_pc = "merged"
    /\ FindDivById(prev_doc, Tbl_1) = 0
    /\ FindDivById(curr_before, Tbl_1) # 0
    /\ FindDivById(prev_doc, Tab_1) = 0
    /\ FindDivById(curr_before, Tab_1) = 0
    /\ merge_steps[1].after = merge_steps[1].before
    /\ merge_steps[2].after # merge_steps[2].before
    /\ merge_steps[3].after = merge_steps[3].before
    /\ merge_steps[4].after # merge_steps[4].before

(***************************************************************************)
(* Properties of the injection (SpecTab).                                   *)
(***************************************************************************)
\* the navigation list of a page: the list that is the first child of its
\* tabs container, 0 when the page has none
NavList(doc) ==
    LET tabs_container == FindDivById(doc, Id_tabs)
    IN  IF /\ tabs_container # 0
           /\ tabs_container < Len(doc)
           /\ doc[tabs_container + 1].tag = "ul"
           /\ doc[tabs_container + 1].d = doc[tabs_container].d + 1
        THEN tabs_container + 1 ELSE 0

\* the one element of a set of one
The(S) == CHOOSE j \in S : TRUE

\* what stands behind the subtree of element i
Behind(doc, i) == SubSeq(doc, SubtreeEnd(doc, i) + 1, Len(doc))

\* C13: after one or more calls on a page that has the tabs container with
\* a navigation list, the page holds exactly one region with the id
\* "tabs-migration", which is the fragment of the last call, standing where a
\* region of that id stood before the calls if there was one; and exactly one
\* link to "#tabs-migration", which is an entry of the navigation list.
C13_InjectIdempotent ==
    (tab_calls >= 1 /\ NavList(tab_before) # 0) =>
        /\ Cardinality(MigrationDivs(tab_soup)) = 1
        /\ DeepCopy(tab_soup, The(MigrationDivs(tab_soup))) = tab_fragment
        /\ MigrationDivs(tab_before) # {} =>
               /\ tab_soup[The(MigrationDivs(tab_soup))].d =
                      tab_before[The(MigrationDivs(tab_before))].d
               /\ Behind(tab_soup, The(MigrationDivs(tab_soup))) =
                      Behind(tab_before, The(MigrationDivs(tab_before)))
        /\ Cardinality(MigrationLinks(tab_soup)) = 1
        /\ NavList(tab_soup) # 0
        /\ The(MigrationLinks(tab_soup)) > NavList(tab_soup)
        /\ The(MigrationLinks(tab_soup)) <= SubtreeEnd(tab_soup, NavList(tab_soup))

\* C13 witness: three calls on a page that had neither the entry nor the
\* region, the last one with another fragment than the page would hold after
\* one call with no change
C13_Witness ==
    /\ tab_calls = 3
    /\ NavList(tab_before) # 0
    /\ MigrationDivs(tab_before) = {}
    /\ MigrationLinks(tab_before) = {}
    /\ tab_fragment = MigrationHtml(<<Record_removed_A>>, 0)
    /\ Len(tab_soup) = Len(tab_before) + 2 + Len(tab_fragment)

(***************************************************************************)
(* Properties of the batch (SpecBatch).                                     *)
(***************************************************************************)
\* the calls of replace_artifact_file made for an artifact, in order
CallsFor(artifact_id) == outcomes[artifact_id]

\* the previous or the current page of the artifact is missing
NotFound(artifact_id) ==
    \/ files_before[<<"prev_original", artifact_id>>] = File_absent
    \/ files_before[<<"curr_original", artifact_id>>] = File_absent

\* both pages of the artifact are there and can be read
Readable(artifact_id) ==
    /\ ~ReadFails(files_before[<<"prev_original", artifact_id>>])
    /\ ~ReadFails(files_before[<<"curr_original", artifact_id>>])

\* C14: a call for an artifact whose previous or current page is missing
\* returns without writing the artifact's current page, in every run; and
\* when the loop of a run is over every artifact of common_ids has had its
\* call in that run, the readable ones merged, whatever artifacts were
\* skipped before them.
C14_NotFoundSkipsOnlyThatArtifact ==
    /\ \A artifact_id \in common_ids :
           NotFound(artifact_id) =>
               /\ files[<<"curr_original", artifact_id>>] =
                      files_before[<<"curr_original", artifact_id>>]
               /\ \A c \in 1..Len(CallsFor(artifact_id)) :
                      /\ CallsFor(artifact_id)[c].result = "skipped"
                      /\ CallsFor(artifact_id)[c].written = File_absent
    /\ (run >= 1 /\ todo = {}) =>
           \A artifact_id \in common_ids :
               /\ Len(CallsFor(artifact_id)) = run
               /\ Readable(artifact_id) =>
                      /\ CallsFor(artifact_id)[run].result = "merged"
                      /\ files[<<"curr_original", artifact_id>>].status = "page"
                      /\ files[<<"curr_original", artifact_id>>] =
                             CallsFor(artifact_id)[run].written

\* C14 witness: a run that is over, in which a call for an artifact without
\* previous page came first and the call behind it merged another artifact
C14_Witness ==
    /\ run = 1
    /\ todo = {}
    /\ Len(visited) >= 2
    /\ files_before[<<"prev_original", visited[1]>>] = File_absent
    /\ CallsFor(visited[1])[1].result = "skipped"
    /\ CallsFor(visited[2])[1].result = "merged"
    /\ files[<<"curr_original", visited[2]>>] = CallsFor(visited[2])[1].written
    /\ files[<<"curr_original", visited[2]>>] # files_before[<<"curr_original", visited[2]>>]

\* C17: over any number of runs on the same files, a cached copy is written
\* only by a call that found none, and holds what the original held before
\* the first run; every merge is computed from the two pages as they were
\* before the first run; and every call that merges an artifact writes the
\* same current page.
C17_RerunIdempotent ==
    \A artifact_id \in common_ids :
        LET calls == CallsFor(artifact_id)
            prev_first == files_before[<<"prev_original", artifact_id>>]
            curr_first == files_before[<<"curr_original", artifact_id>>]
        IN  /\ \A c, e \in 1..Len(calls) :
                   c < e => calls[c].copied \cap calls[e].copied = {}
            /\ files[<<"prev_copy", artifact_id>>] \in {File_absent, prev_first}
            /\ files[<<"curr_copy", artifact_id>>] \in {File_absent, curr_first}
            /\ files[<<"prev_original", artifact_id>>] = prev_first
            /\ \A c \in 1..Len(calls) :
                   calls[c].result = "merged" =>
                       /\ calls[c].written = MergedPage(prev_first, curr_first, config)
                       /\ calls[c].written = calls[1].written
                       /\ files[<<"prev_copy", artifact_id>>] = prev_first
                       /\ files[<<"curr_copy", artifact_id>>] = curr_first
                       /\ files[<<"curr_original", artifact_id>>] = calls[1].written

\* C17 witness: the third run over, an artifact merged three times, its
\* current page no longer the one the guide held, and a second merge of the
\* page that was written would not give that page again
C17_Witness ==
    /\ run = 3
    /\ todo = {}
    /\ \E artifact_id \in common_ids :
          /\ Len(CallsFor(artifact_id)) = 3
          /\ CallsFor(artifact_id)[3].result = "merged"
          /\ CallsFor(artifact_id)[1].copied = {"prev", "curr"}
          /\ files[<<"curr_original", artifact_id>>] #
                 files_before[<<"curr_original", artifact_id>>]
          /\ MergedPage(files_before[<<"prev_original", artifact_id>>],
                        files[<<"curr_original", artifact_id>>], config)
                 # files[<<"curr_original", artifact_id>>]

(***************************************************************************)
(* Properties of the hierarchy the structure extractor builds (SpecParse).  *)
(***************************************************************************)
\* the path without its last segment
ParentPath(path) == JoinDot(SubSeq(SplitDot(path), 1, Len(SplitDot(path)) - 1))

\* the nearest row of depth d before row i, 0 when there is none
NearestBefore(i, d) ==
    LET above == {j \in 1..(i - 1) : soup.rows[j].depth = d}
    IN  IF above = {} THEN 0 ELSE Max(above)

\* the entries emitted for row i
EmittedFor(i) == {e \in 1..Len(emitted) : emitted[e].row = i}

\* the path stack after the first i rows of the table
StackAfter(i) ==
    ParseRows(SubSeq(soup.rows, 1, i), 1,
              [path_stack |-> <<>>, structure |-> <<>>, emitted |-> <<>>]).path_stack

\* the parent of an emitted row is the row its indentation shows
AttachedToVisualParent(e) ==
    LET above == NearestBefore(emitted[e].row, emitted[e].depth - 1)
    IN  /\ above # 0
        /\ \E f \in EmittedFor(above) : emitted[f].path = ParentPath(emitted[e].path)

Dropped == {i \in 1..Len(sup_in) : \A j \in 1..Len(sup_out) : sup_out[j] # sup_in[i]}

\* the list passed in without the records at the indices in S
RECURSIVE WithoutIndices(_, _, _)
WithoutIndices(recs, S, i) ==
    IF i > Len(recs) THEN <<>>
    ELSE (IF i \in S THEN <<>> ELSE <<recs[i]>>) \o WithoutIndices(recs, S, i + 1)

\* C16: the returned list is the list passed in without the dropped records;
\* for every dropped record it still holds a record of type Removed or New
\* whose path is a strict dotted ancestor of the dropped record's path; and
\* suppress_child_changes applied to its own output returns it unchanged.
C16_DroppedHaveKeptAncestor ==
    /\ sup_pc \in {"done", "again"} =>
           /\ sup_out = WithoutIndices(sup_in, Dropped, 1)
           /\ \A i \in Dropped :
                  \E j \in 1..Len(sup_out) :
                      /\ sup_out[j].type \in {"Removed", "New"}
                      /\ StrictDescendant(sup_in[i].element, sup_out[j].element)
    /\ sup_pc = "again" => sup_again = sup_out

\* C16 witness: a record dropped together with its parent, whose own parent
\* is kept, and the second call made
C16_Witness ==
    /\ sup_pc = "again"
    /\ \E i \in Dropped : sup_in[i].element = Str_A_B_C
    /\ \E i \in Dropped : sup_in[i].element = Str_A_B /\ sup_in[i].type # "Changed"
    /\ \E j \in 1..Len(sup_out) : sup_out[j].element = Str_A
    /\ \A j \in 1..Len(sup_out) : sup_out[j].element # Str_A_B

====
